---- MODULE Spec2Model ----
(***************************************************************************)
(* Model of the generate-repair pipeline of server/index.js:               *)
(*   feedbackLoop                 (JSON retry wrapper around an LLM call)  *)
(*   generateUntilNoManimErrors   (generate / render / repair loop)        *)
(*   runManim, findLatestMp4      (renderer invocation and video search)   *)
(* Texts are sequences of one-character strings, so that trimming, fence   *)
(* stripping, JSON parsing and substring tests are computed, not assumed.  *)
(***************************************************************************)
EXTENDS Integers, Sequences, FiniteSets, TLC

VARIABLES
  \* ---- feedbackLoop (index.js 472-501) ----
  flPc,            \* "idle" | "call" (awaiting generateFn) | "wait" (800 ms backoff) | "done"
  flAttempt,       \* the for-loop counter `attempt`
  flMax,           \* the parameter maxRetries
  flInput,         \* the variable `input` handed to generateFn
  lastRawContent,  \* the variable lastRawContent
  flResult,        \* the value feedbackLoop returned (meaningful when flPc = "done")
  flCalls,         \* number of generateFn invocations of this feedbackLoop call
  flWaits,         \* number of 800 ms backoff waits of this feedbackLoop call
  flOutcome,       \* what the latest loop iteration did: "none" | "parsed" | "unparsable" | "threw"
  flResponse,      \* the content of the latest response received, untrimmed
  flStripped,      \* the text handed to JSON.parse in the latest iteration
  flReceived,      \* whether any response was received in this feedbackLoop call
  \* ---- generateUntilNoManimErrors (index.js 395-470) ----
  pc,              \* "off" | "generating" | "rendering" | "backoff" | "returned" | "threw"
  attempt,         \* the variable `attempt`
  maxAttempts,     \* the parameter maxAttempts
  scenePlan,       \* the (re-bound) parameter scenePlan
  manimCodeJSON,   \* the variable manimCodeJSON
  manimResult,     \* the variable manimResult
  glResult,        \* the object the function returned (meaningful when pc = "returned")
  scriptFile,      \* content of scripts/<scene_name>.py, <<>> while not written
  writes,          \* number of writeFile calls
  renders,         \* number of runManim invocations
  genStarts,       \* number of feedbackLoop invocations made by the loop
  genPlan,         \* the scene plan handed to the latest feedbackLoop invocation
  lastRender,      \* what the latest render ran on and emitted: code, stderr, attempt
  handler,         \* the /generateVideo handler: "received" | "planning" | "awaiting" |
                   \* "narration" | "merging" | "op" | "feedback" | "invalid" | "noVideo" |
                   \* "caught" | "succeeded" | "crashed"
  \* ---- runManim / findLatestMp4 (index.js 644-906) ----
  fs,              \* the file system: file -> modification time, or Absent
  fsize,           \* the file system: file -> size in bytes (0 when absent)
  rmPc,            \* "off" | "running" | "closed" | "crashed"
  output,          \* accumulated stdout, as a sequence of lines
  errors,          \* accumulated stderr, a text
  timedOut,        \* the timer of line 688 fired and killed the renderer
  childError,      \* the child emitted an 'error' event (it could not be spawned)
  exitCode,        \* the code the close event delivered, NoExit before
  searchResult,    \* the RenderResult runManim resolved with
  \* ---- padOrTrimAudioToMatch (lib/audio.js 62-141) ----
  auPc,            \* "off" | "start" | "silence" | "measured" | "padding" | "returned" | "rejected"
  media,           \* media files: path -> duration in ms, or NoFile
  mediaAtCall,     \* media as it was when padOrTrimAudioToMatch was called
  audioPath,       \* the parameter audioPath (NoPath for null)
  clock,           \* the latest value Date.now() returned or may return
  videoDur,        \* the variable videoDur, in ms (NotMeasured before)
  audioDur,        \* the variable audioDur, in ms (NotMeasured before)
  silentPart,      \* the variable silentPart of the padding branch
  ffmpegRuns,      \* the ffmpeg processes spawned, in order: inputs, -t, output
  probes,          \* number of ffprobe processes spawned
  auResult,        \* the path the function returned (when auPc = "returned")
  \* ---- mergeVideoAndAudio and its variants (index.js 930-1278) ----
  mgPc,            \* "off" | "start" | "reconciling" | "probing" | "transcoding" | "closed" | "threw" | "crashed"
  mgVariant,       \* "plain" | "volume" | "fade" | "filter"
  mgVideo,         \* the parameter videoPath (NoPath for an empty one)
  mgDir,           \* whether mkdir(outputDir) ran
  mgOut,           \* the output file: "absent" | "empty" | "written"
  mgSpawns,        \* the processes the merge function itself spawned, in order
  mgPromise,       \* the promise the call returned: "pending" | "resolved" | "rejected"
  mgError,         \* the error the promise was rejected with
  mgCode,          \* the code the transcoder's close event delivered, NoExit before
  \* ---- the /generateVideo handler (index.js 159-385) ----
  responses,       \* the responses sent for the request, in order
  ttsCalls,        \* number of generateNepaliVoice calls for the narration
  ttsResponse,     \* the HTTP response the narration call received
  muxCalls,        \* number of mergeVideoAndAudio calls
  failures,        \* the stages of the request that failed
  \* ---- the scratch file under a second request (index.js 417-428) ----
  otherPc,         \* a second request on the same scene_name: "off" | "generating" |
                   \* "rendering" | "returned"
  otherCode,       \* the manim_code the second request wrote to the scratch file
  loaded,          \* the source this request's renderer read from the scratch
                   \* file, Null while it has not read it
  callerPlan       \* the scene plan object the caller holds and passed in (line 176)

flVars == << flPc, flAttempt, flMax, flInput, lastRawContent, flResult, flCalls,
             flWaits, flOutcome, flResponse, flStripped, flReceived >>
glVars == << pc, attempt, maxAttempts, scenePlan, manimCodeJSON, manimResult,
             glResult, scriptFile, writes, renders, genStarts, genPlan, lastRender,
             handler >>
rmVars == << fs, fsize, rmPc, output, errors, timedOut, childError, exitCode, searchResult >>
auVars == << auPc, media, mediaAtCall, audioPath, clock, videoDur, audioDur,
             silentPart, ffmpegRuns, probes, auResult >>
mgVars == << mgPc, mgVariant, mgVideo, mgDir, mgOut, mgSpawns, mgPromise, mgError,
             mgCode >>
hVars == << responses, ttsCalls, ttsResponse, muxCalls, failures >>
coVars == << otherPc, otherCode, loaded, callerPlan >>
vars == << flVars, glVars, rmVars, auVars, mgVars, hVars, coVars >>

(***************************************************************************)
(* Bounds of the model.                                                    *)
(***************************************************************************)
MaxRetriesBound == 3    \* maxRetries ranges over 1..MaxRetriesBound
MaxAttemptsBound == 3   \* maxAttempts ranges over 1..MaxAttemptsBound
MaxMtime == 2           \* modification times range over 0..MaxMtime
MaxLines == 2           \* the renderer prints at most MaxLines stdout lines
MaxChunks == 2          \* the renderer emits at most MaxChunks stderr chunks
MaxClock == 3           \* Date.now() ranges over 1..MaxClock

(***************************************************************************)
(* Program constants.                                                      *)
(***************************************************************************)
DefaultMaxRetries == 3
DefaultMaxAttempts == 3
ErrorSliceLen == 2000

(***************************************************************************)
(* Text helpers.                                                           *)
(***************************************************************************)
Q == "\""
BS == "\\"
NL == "\n"
\* The backquote character (written by name: the lexer rejects it in a string).
BT == "BQ"

\* String.prototype.trim strips these (of the characters the model uses).
TrimWhitespace == {" ", "\n", "\t", "\r"}

RECURSIVE TrimStart(_)
TrimStart(s) ==
  IF s /= <<>> /\ Head(s) \in TrimWhitespace THEN TrimStart(Tail(s)) ELSE s

RECURSIVE TrimEnd(_)
TrimEnd(s) ==
  IF s /= <<>> /\ s[Len(s)] \in TrimWhitespace
  THEN TrimEnd(SubSeq(s, 1, Len(s) - 1))
  ELSE s

Trim(s) == TrimEnd(TrimStart(s))

StartsWith(s, p) == Len(p) <= Len(s) /\ SubSeq(s, 1, Len(p)) = p
EndsWith(s, p) == Len(p) <= Len(s) /\ SubSeq(s, Len(s) - Len(p) + 1, Len(s)) = p
DropFirst(s, n) == SubSeq(s, n + 1, Len(s))
DropLast(s, n) == SubSeq(s, 1, Len(s) - n)
Includes(s, p) == \E i \in 0..(Len(s) - Len(p)) : SubSeq(s, i + 1, i + Len(p)) = p

Fence == << BT, BT, BT >>
JsonTag == << "j", "s", "o", "n" >>

\* slip: the pattern lacks the optional json tag, /^```\n?/
StripLeadingFenceUntagged(s) ==
  IF ~StartsWith(s, Fence) THEN s
  ELSE LET a == DropFirst(s, 3)
       IN IF StartsWith(a, << NL >>) THEN DropFirst(a, 1) ELSE a

\* .replace(/^```(?:json)?\n?/, "")
StripLeadingFence(s) ==
  IF ~StartsWith(s, Fence) THEN s
  ELSE LET a == DropFirst(s, 3)
           b == IF StartsWith(a, JsonTag) THEN DropFirst(a, 4) ELSE a
       IN IF StartsWith(b, << NL >>) THEN DropFirst(b, 1) ELSE b

\* .replace(/```$/, "")
StripTrailingFence(s) == IF EndsWith(s, Fence) THEN DropLast(s, 3) ELSE s

\* lines 480-482
Stripped(raw) == StripTrailingFence(StripLeadingFence(raw))

(***************************************************************************)
(* JSON.parse on the texts of the model: objects (nested), strings with    *)
(* the escapes \" \\ \/ \n \t, non-negative integers, true, false, null.   *)
(* A JSON value is a record [t, s, m]: t the type, s the text of a string  *)
(* or number, m the members of an object in source order.                  *)
(***************************************************************************)
JSONWhitespace == {" ", "\n", "\t", "\r"}
Digits == {"0", "1", "2", "3", "4", "5", "6", "7", "8", "9"}
ControlChars == {"\n", "\t", "\r"}

JNull == [t |-> "null", s |-> <<>>, m |-> <<>>]
JTrue == [t |-> "true", s |-> <<>>, m |-> <<>>]
JFalse == [t |-> "false", s |-> <<>>, m |-> <<>>]
JString(s) == [t |-> "string", s |-> s, m |-> <<>>]
JNumber(s) == [t |-> "number", s |-> s, m |-> <<>>]
JObject(m) == [t |-> "object", s |-> <<>>, m |-> m]

ParseFail == [ok |-> FALSE, val |-> JNull, next |-> 0]
ParseOk(v, n) == [ok |-> TRUE, val |-> v, next |-> n]

RECURSIVE SkipWS(_, _)
SkipWS(s, i) ==
  IF i <= Len(s) /\ s[i] \in JSONWhitespace THEN SkipWS(s, i + 1) ELSE i

Unescape(c) ==
  CASE c = "n" -> "\n"
    [] c = "t" -> "\t"
    [] OTHER -> c

\* the characters of a string literal after its opening quote
RECURSIVE ParseStringBody(_, _, _)
ParseStringBody(s, i, acc) ==
  IF i > Len(s) THEN ParseFail
  ELSE IF s[i] = Q THEN ParseOk(JString(acc), i + 1)
  ELSE IF s[i] = BS
    THEN IF i + 1 <= Len(s) /\ s[i + 1] \in {Q, BS, "/", "n", "t"}
         THEN ParseStringBody(s, i + 2, Append(acc, Unescape(s[i + 1])))
         ELSE ParseFail
  ELSE IF s[i] \in ControlChars THEN ParseFail
  ELSE ParseStringBody(s, i + 1, Append(acc, s[i]))

RECURSIVE DigitsEnd(_, _)
DigitsEnd(s, i) == IF i <= Len(s) /\ s[i] \in Digits THEN DigitsEnd(s, i + 1) ELSE i

ParseNumber(s, i) ==
  LET e == DigitsEnd(s, i)
  IN IF s[i] = "0" /\ e > i + 1 THEN ParseOk(JNumber(<< "0" >>), i + 1)
     ELSE ParseOk(JNumber(SubSeq(s, i, e - 1)), e)

LitAt(s, i, w) == i + Len(w) - 1 <= Len(s) /\ SubSeq(s, i, i + Len(w) - 1) = w

RECURSIVE ParseValue(_, _)
RECURSIVE ParseMembers(_, _, _)

\* members of an object, i at the opening quote of the next key
ParseMembers(s, i, acc) ==
  IF i > Len(s) \/ s[i] /= Q THEN ParseFail
  ELSE LET key == ParseStringBody(s, i + 1, <<>>)
       IN IF ~key.ok THEN ParseFail
          ELSE LET c == SkipWS(s, key.next)
               IN IF c > Len(s) \/ s[c] /= ":" THEN ParseFail
                  ELSE LET v == ParseValue(s, SkipWS(s, c + 1))
                       IN IF ~v.ok THEN ParseFail
                          ELSE LET d == SkipWS(s, v.next)
                                   acc2 == Append(acc, [k |-> key.val.s, v |-> v.val])
                               IN IF d > Len(s) THEN ParseFail
                                  ELSE IF s[d] = "}" THEN ParseOk(JObject(acc2), d + 1)
                                  ELSE IF s[d] = "," THEN ParseMembers(s, SkipWS(s, d + 1), acc2)
                                  ELSE ParseFail

\* one JSON value starting exactly at i
ParseValue(s, i) ==
  IF i > Len(s) THEN ParseFail
  ELSE IF s[i] = "{"
    THEN LET j == SkipWS(s, i + 1)
         IN IF j <= Len(s) /\ s[j] = "}" THEN ParseOk(JObject(<<>>), j + 1)
            ELSE ParseMembers(s, j, <<>>)
  ELSE IF s[i] = Q THEN ParseStringBody(s, i + 1, <<>>)
  ELSE IF s[i] \in Digits THEN ParseNumber(s, i)
  ELSE IF LitAt(s, i, << "n", "u", "l", "l" >>) THEN ParseOk(JNull, i + 4)
  ELSE IF LitAt(s, i, << "t", "r", "u", "e" >>) THEN ParseOk(JTrue, i + 4)
  ELSE IF LitAt(s, i, << "f", "a", "l", "s", "e" >>) THEN ParseOk(JFalse, i + 5)
  ELSE ParseFail

\* JSON.parse(text): ok = FALSE stands for the SyntaxError it throws
JSONParse(s) ==
  LET r == ParseValue(s, SkipWS(s, 1))
  IN IF r.ok /\ SkipWS(s, r.next) = Len(s) + 1
     THEN [ok |-> TRUE, val |-> r.val]
     ELSE [ok |-> FALSE, val |-> JNull]

\* JavaScript truthiness of a parsed JSON value
Truthy(v) ==
  CASE v.t \in {"null", "false"} -> FALSE
    [] v.t = "string" -> v.s /= <<>>
    [] v.t = "number" -> v.s /= << "0" >>
    [] OTHER -> TRUE

\* object.key for a parsed value; [has |-> FALSE] stands for undefined
RECURSIVE LastMember(_, _, _)
LastMember(m, key, i) ==
  IF i = 0 THEN [has |-> FALSE, val |-> JNull]
  ELSE IF m[i].k = key THEN [has |-> TRUE, val |-> m[i].v]
  ELSE LastMember(m, key, i - 1)

GetProp(v, key) == LastMember(v.m, key, Len(v.m))

(***************************************************************************)
(* Scene plans and generateFn inputs.  keys is the set of own properties   *)
(* of the JavaScript object.                                               *)
(***************************************************************************)
NoText == <<>>

PlanKeys == {"scene_name", "objects", "actions", "narration", "captions"}
RepairKeys == {"previous_code", "manim_error", "manim_video_missing"}

NoPlan ==
  [keys |-> {}, scene_name |-> "", objects |-> "", actions |-> "",
   narration |-> "", captions |-> "", previous_code |-> NoText,
   manim_error |-> NoText, manim_video_missing |-> FALSE]

\* the plan the /generateVideo handler passes in (index.js 176)
InitialPlan(scene) ==
  [keys |-> PlanKeys, scene_name |-> scene, objects |-> "circle",
   actions |-> "grow", narration |-> "story", captions |-> "titles",
   previous_code |-> NoText,
   manim_error |-> NoText, manim_video_missing |-> FALSE]

\* feedbackLoop(generateManimCode, scenePlan): the input is the plan itself
PlanInput(plan) ==
  [keys |-> plan.keys, role |-> "", content |-> NoText, plan |-> plan]

\* feedbackLoop(generateScenePlan, {description, language}) (index.js 168-171)
DescriptionInput ==
  [keys |-> {"description", "language"}, role |-> "", content |-> NoText, plan |-> NoPlan]

(***************************************************************************)
(* feedbackLoop (index.js 472-501).                                        *)
(***************************************************************************)
PromptHead == <<
    "P", "r", "e", "v", "i", "o", "u", "s", " ", "o", "u", "t",
    "p", "u", "t", " ", "c", "o", "u", "l", "d", " ", "n", "o",
    "t", " ", "b", "e", " ", "p", "a", "r", "s", "e", "d", " ",
    "a", "s", " ", "v", "a", "l", "i", "d", " ", "J", "S", "O",
    "N", ":", "\n" >>

PromptTail == <<
    "\n", "\n", "P", "l", "e", "a", "s", "e", " ", "r", "e", "t",
    "u", "r", "n", " ", "a", " ", "s", "t", "r", "i", "c", "t",
    " ", "J", "S", "O", "N", " ", "o", "b", "j", "e", "c", "t",
    " ", "o", "n", "l", "y", ",", " ", "m", "a", "t", "c", "h",
    "i", "n", "g", " ", "t", "h", "e", " ", "e", "x", "p", "e",
    "c", "t", "e", "d", " ", "s", "c", "h", "e", "m", "a", ".",
    " ", "N", "o", " ", "e", "x", "p", "l", "a", "n", "a", "t",
    "i", "o", "n", "." >>

\* slip: the content is kept as received
RawOfUntrimmed(content) == content

\* line 478: lastRawContent = content.trim()
RawOf(content) == Trim(content)

\* slip: the prompt quotes the text after fence stripping
CorrectivePromptStripped(raw) == PromptHead \o Stripped(raw) \o PromptTail

\* line 494: the template literal
CorrectivePrompt(raw) == PromptHead \o raw \o PromptTail

\* slip: role and content are added to the input the loop was called with
CorrectiveInputMerged(raw) ==
  [flInput EXCEPT !.keys = @ \cup {"role", "content"}, !.role = "user",
                  !.content = CorrectivePrompt(raw)]

\* lines 492-495
CorrectiveInput(raw) ==
  [keys |-> {"role", "content"}, role |-> "user",
   content |-> CorrectivePrompt(raw), plan |-> NoPlan]

\* line 500: { raw: lastRawContent }
RawKey == << "r", "a", "w" >>
RawResult(raw) == JObject(<< [k |-> RawKey, v |-> JString(raw)] >>)

\* slip: the loop runs once more than maxRetries
LoopContinuesOnceMore(a, maxRetries) == a <= maxRetries + 1

\* line 474: attempt <= maxRetries
LoopContinues(a, maxRetries) == a <= maxRetries

\* slip: a successful parse does not leave the loop
AfterIterationNoReturn(parsedOk) == "wait"

\* line 485 returns out of the loop; the catch block falls through to the wait
AfterIteration(parsedOk) == IF parsedOk THEN "done" ELSE "wait"

\* entry of feedbackLoop(generateFn, input, maxRetries): lines 472-474
FLEnter(input, maxRetries) ==
  /\ flInput' = input
  /\ flMax' = maxRetries
  /\ lastRawContent' = NoText
  /\ flAttempt' = 1
  /\ flCalls' = 0
  /\ flWaits' = 0
  /\ flOutcome' = "none"
  /\ flResponse' = NoText
  /\ flStripped' = NoText
  /\ flReceived' = FALSE
  /\ IF LoopContinues(1, maxRetries)
     THEN flPc' = "call" /\ flResult' = JNull
     ELSE flPc' = "done" /\ flResult' = RawResult(NoText)

\* generateFn resolved with a response whose content parses: lines 476-485
FLParsed(content) ==
  /\ flPc = "call"
  /\ JSONParse(Stripped(RawOf(content))).ok
  /\ flCalls' = flCalls + 1
  /\ lastRawContent' = RawOf(content)
  /\ flResponse' = content
  /\ flStripped' = Stripped(RawOf(content))
  /\ flReceived' = TRUE
  /\ flOutcome' = "parsed"
  /\ flResult' = JSONParse(Stripped(RawOf(content))).val
  /\ flPc' = AfterIteration(TRUE)
  /\ UNCHANGED << flAttempt, flMax, flInput, flWaits >>
  /\ UNCHANGED << glVars, rmVars, auVars, mgVars, hVars, coVars >>

\* generateFn resolved, JSON.parse threw: lines 476-484, then 486-495
FLUnparsable(content) ==
  /\ flPc = "call"
  /\ ~JSONParse(Stripped(RawOf(content))).ok
  /\ flCalls' = flCalls + 1
  /\ lastRawContent' = RawOf(content)
  /\ flResponse' = content
  /\ flStripped' = Stripped(RawOf(content))
  /\ flReceived' = TRUE
  /\ flOutcome' = "unparsable"
  /\ flInput' = CorrectiveInput(RawOf(content))
  /\ flPc' = AfterIteration(FALSE)
  /\ UNCHANGED << flAttempt, flMax, flResult, flWaits >>
  /\ UNCHANGED << glVars, rmVars, auVars, mgVars, hVars, coVars >>

\* generateFn rejected (or its response had no usable shape): line 476, then 486-495
FLThrew ==
  /\ flPc = "call"
  /\ flCalls' = flCalls + 1
  /\ flOutcome' = "threw"
  /\ flInput' = CorrectiveInput(lastRawContent)
  /\ flPc' = AfterIteration(FALSE)
  /\ UNCHANGED << flAttempt, flMax, flResult, flWaits, lastRawContent,
                  flResponse, flStripped, flReceived >>
  /\ UNCHANGED << glVars, rmVars, auVars, mgVars, hVars, coVars >>

\* line 496 elapsed, loop goes round: attempt++ and the condition holds
FLRetry ==
  /\ flPc = "wait"
  /\ LoopContinues(flAttempt + 1, flMax)
  /\ flWaits' = flWaits + 1
  /\ flAttempt' = flAttempt + 1
  /\ flPc' = "call"
  /\ UNCHANGED << flMax, flInput, lastRawContent, flResult, flCalls, flOutcome,
                  flResponse, flStripped, flReceived >>
  /\ UNCHANGED << glVars, rmVars, auVars, mgVars, hVars, coVars >>

\* line 496 elapsed, loop ends: lines 499-500
FLGiveUp ==
  /\ flPc = "wait"
  /\ ~LoopContinues(flAttempt + 1, flMax)
  /\ flWaits' = flWaits + 1
  /\ flAttempt' = flAttempt + 1
  /\ flResult' = RawResult(lastRawContent)
  /\ flPc' = "done"
  /\ UNCHANGED << flMax, flInput, lastRawContent, flCalls, flOutcome,
                  flResponse, flStripped, flReceived >>
  /\ UNCHANGED << glVars, rmVars, auVars, mgVars, hVars, coVars >>

(***************************************************************************)
(* The file system seen by runManim.  A file is [dir, name, ext]; a path   *)
(* value is Null or << file >>.  fs maps every file of the universe to its *)
(* modification time (mtimeMs), or to Absent.                              *)
(***************************************************************************)
Absent == -1
Null == <<>>
Some(f) == << f >>

Scene == "SceneA"
ScriptsPath == << "scripts" >>                       \* join(__dirname, "scripts")
MediaRoot == ScriptsPath \o << "media", "videos" >>  \* line 728

\* the file the renderer is expected to write: media/videos/<scene>/480p15/<scene>.mp4
FQuality == [dir |-> MediaRoot \o << Scene, "480p15" >>, name |-> Scene, ext |-> "mp4"]
\* a video in the scene folder outside the quality folders
FSceneSub == [dir |-> MediaRoot \o << Scene, "sections" >>, name |-> "part", ext |-> "mp4"]
\* the video of another scene under the same media root
FOtherScene == [dir |-> MediaRoot \o << "SceneB", "480p15" >>, name |-> "SceneB", ext |-> "mp4"]
\* a merged deliverable of an earlier request: scripts/outputs/final.mp4
FOutputs == [dir |-> ScriptsPath \o << "outputs" >>, name |-> "final", ext |-> "mp4"]
\* a sample video shipped inside the Python environment
FVenv == [dir |-> ScriptsPath \o << "myvenv", "Lib" >>, name |-> "demo", ext |-> "mp4"]

Files == { FQuality, FSceneSub, FOtherScene, FOutputs, FVenv }

\* the order in which directory listings (readdir) deliver the files
ListingOrder == << FQuality, FSceneSub, FOtherScene, FOutputs, FVenv >>

Mtimes == 0..MaxMtime
Disks == [Files -> Mtimes \cup {Absent}]
EmptyDisk == [f \in Files |-> Absent]

\* sizes in bytes: a file on disk that was written in full has SomeBytes
SomeBytes == 1
FullSizes(disk) == [f \in Files |-> IF disk[f] = Absent THEN 0 ELSE SomeBytes]

\* fs.existsSync(path) for a file path
ExistsSync(disk, f) == f \in Files /\ disk[f] /= Absent

\* a directory exists when some file of the universe lies in it or below it
DirExists(disk, dir) ==
  \E f \in Files : disk[f] /= Absent /\ StartsWith(f.dir, dir)

(***************************************************************************)
(* stdout of the renderer, a sequence of lines.  Of a line the search uses *)
(*   mp4    : line.includes(".mp4")                                        *)
(*   ready  : line.includes("File ready") || line.includes("ready at")     *)
(*   quoted : the first group of /['"]([^'"]+\.mp4)['"]/, Null if no match *)
(***************************************************************************)
PlainLine == [mp4 |-> FALSE, ready |-> FALSE, quoted |-> Null]
ReadyLine(f) == [mp4 |-> TRUE, ready |-> TRUE, quoted |-> Some(f)]
PartialLine(f) == [mp4 |-> TRUE, ready |-> FALSE, quoted |-> Some(f)]

\* slip: the first matching line is kept
RECURSIVE DetectFromFirst(_, _, _)
DetectFromFirst(lines, i, detected) ==
  IF i > Len(lines) THEN detected
  ELSE IF lines[i].mp4 /\ lines[i].ready /\ lines[i].quoted /= Null /\ detected = Null
       THEN DetectFromFirst(lines, i + 1, lines[i].quoted)
       ELSE DetectFromFirst(lines, i + 1, detected)

\* lines 713-726: the loop overwrites detectedVideoPath at every matching line
RECURSIVE DetectFrom(_, _, _)
DetectFrom(lines, i, detected) ==
  IF i > Len(lines) THEN detected
  ELSE IF lines[i].mp4 /\ lines[i].ready /\ lines[i].quoted /= Null
       THEN DetectFrom(lines, i + 1, lines[i].quoted)
       ELSE DetectFrom(lines, i + 1, detected)

DetectedVideoPath(lines) == DetectFrom(lines, 1, Null)

\* lines 733-736: strategy 1
Tier1(disk, lines) ==
  LET d == DetectedVideoPath(lines)
  IN IF d /= Null /\ ExistsSync(disk, d[1]) THEN d ELSE Null

\* gatherMp4(dir, []) of findLatestMp4, lines 829-846: every .mp4 (any letter
\* case) in dir or below, in listing order
gatherMp4(disk, dir) ==
  SelectSeq(ListingOrder,
            LAMBDA f : /\ disk[f] /= Absent
                       /\ StartsWith(f.dir, dir)
                       /\ f.ext \in {"mp4", "MP4"})

possibleQualityFolders == << "480p15", "720p30", "1080p60", "2160p60" >>

\* lines 852-861: the quality folders in turn
RECURSIVE QualityCandidates(_, _, _)
QualityCandidates(disk, sceneName, i) ==
  IF i > Len(possibleQualityFolders) THEN <<>>
  ELSE gatherMp4(disk, MediaRoot \o << sceneName, possibleQualityFolders[i] >>)
         \o QualityCandidates(disk, sceneName, i + 1)

\* slip: without the fallback to the whole media root of lines 881-885
CandidatesSceneOnly(disk, sceneName) ==
  QualityCandidates(disk, sceneName, 1) \o gatherMp4(disk, MediaRoot \o << sceneName >>)

\* lines 848-885: quality folders, then the scene folder, then (only when
\* both gave nothing) the whole media root
Candidates(disk, sceneName) ==
  LET scoped == QualityCandidates(disk, sceneName, 1)
                  \o gatherMp4(disk, MediaRoot \o << sceneName >>)
  IN IF scoped /= <<>> THEN scoped ELSE gatherMp4(disk, MediaRoot)

\* lines 892-902: first candidate with the strictly greatest mtime above 0
RECURSIVE NewestFrom(_, _, _, _, _)
NewestFrom(disk, cands, i, newest, newestMtime) ==
  IF i > Len(cands) THEN newest
  ELSE IF disk[cands[i]] > newestMtime
       THEN NewestFrom(disk, cands, i + 1, Some(cands[i]), disk[cands[i]])
       ELSE NewestFrom(disk, cands, i + 1, newest, newestMtime)

\* findLatestMp4(mediaRoot, sceneName), lines 813-906
findLatestMp4(disk, sceneName) ==
  IF ~DirExists(disk, MediaRoot) THEN Null
  ELSE NewestFrom(disk, Candidates(disk, sceneName), 1, Null, 0)

\* searchDir(scriptsPath), lines 768-787: every file ending in ".mp4" below
\* scripts, not descending into node_modules or myvenv folders
ExcludedDirNames == { "node_modules", "myvenv" }
allMp4s(disk) ==
  { f \in Files : /\ disk[f] /= Absent
                  /\ StartsWith(f.dir, ScriptsPath)
                  /\ f.ext = "mp4"
                  /\ \A i \in (Len(ScriptsPath) + 1)..Len(f.dir) :
                       f.dir[i] \notin ExcludedDirNames }

\* lines 789-795: sort by mtime descending, take the first; among files of
\* equal mtime the winner depends on the listing order, so any may win
Tier3(disk) ==
  LET all == allMp4s(disk)
  IN IF all = {} THEN { Null }
     ELSE { Some(f) : f \in { g \in all : \A h \in all : disk[h] <= disk[g] } }

\* slip: the next strategy runs whatever the previous one found
RunsNextTierAlways(videoPath) == TRUE

\* lines 738 and 763: a strategy runs only while videoPath is still null
RunsNextTier(videoPath) == videoPath = Null

\* lines 731-799: the outcomes of the search, each with the strategies it ran
Searches(disk, lines, sceneName) ==
  LET v1 == Tier1(disk, lines)
      run2 == RunsNextTier(v1)
      v2 == IF run2 THEN findLatestMp4(disk, sceneName) ELSE v1
      run3 == RunsNextTier(v2)
      tiers == {1} \cup (IF run2 THEN {2} ELSE {}) \cup (IF run3 THEN {3} ELSE {})
  IN IF run3
     THEN { [videoPath |-> v, tiers |-> tiers] : v \in Tier3(disk) }
     ELSE { [videoPath |-> v2, tiers |-> tiers] }

\* slip: success looks at the exit code alone
RenderResultExitOnly(lines, errs, code, search) ==
  [output |-> lines, errors |-> errs, videoPath |-> search.videoPath,
   success |-> (code = 0), tiers |-> search.tiers]

\* lines 803-808: the object runManim resolves with (tiers is bookkeeping)
RenderResult(lines, errs, code, search) ==
  [output |-> lines, errors |-> errs, videoPath |-> search.videoPath,
   success |-> (code = 0 /\ search.videoPath /= Null), tiers |-> search.tiers]

\* line 400: the initial manimResult
InitialManimResult ==
  [output |-> <<>>, errors |-> NoText, videoPath |-> Null, success |-> FALSE, tiers |-> {}]

ExitCodes == {0, 1}
\* the code of a close event after a kill by signal is null
KilledExit == -1
\* no close event yet
NoExit == -2

\* line 645: the executor takes resolve only, and resolve is called in the
\* close handler alone (line 803); nothing ever rejects the promise
PromiseState == IF rmPc = "closed" THEN "resolved" ELSE "pending"

\* ps.stdout.on("data"): lines 677-681
RMStdout(line) ==
  /\ rmPc = "running"
  /\ Len(output) < MaxLines
  /\ output' = Append(output, line)
  /\ UNCHANGED << fs, fsize, rmPc, errors, timedOut, childError, exitCode, searchResult >>
  /\ UNCHANGED << flVars, glVars, auVars, mgVars, hVars, coVars >>

\* ps.stderr.on("data"): lines 682-686
RMStderr(chunk) ==
  /\ rmPc = "running"
  /\ Len(errors) < MaxChunks * Len(chunk)
  /\ errors' = errors \o chunk
  /\ UNCHANGED << fs, fsize, rmPc, output, timedOut, childError, exitCode, searchResult >>
  /\ UNCHANGED << flVars, glVars, auVars, mgVars, hVars, coVars >>

\* slip: the timer is not cleared and finished is not tested
TimerLiveAfterClose == rmPc \in {"running", "closed"}

\* lines 689 and 698-699: the close handler sets finished and clears the
\* timer, so the callback kills only before the close event
TimerLive == rmPc = "running"

\* the timer of lines 688-695 fires while finished is false: ps.kill()
RMTimeout ==
  /\ TimerLive
  /\ ~timedOut
  /\ timedOut' = TRUE
  /\ UNCHANGED << fs, fsize, rmPc, output, errors, childError, exitCode, searchResult >>
  /\ UNCHANGED << flVars, glVars, auVars, mgVars, hVars, coVars >>

\* the child emits 'error' (the spawn of lines 659-675 failed): no listener
\* is registered for it, so the event is thrown as an uncaught exception and
\* the server process ends; the promise is left unsettled
RMChildError ==
  /\ rmPc = "running"
  /\ output = <<>> /\ errors = NoText /\ ~timedOut
  /\ childError' = TRUE
  /\ rmPc' = "crashed"
  /\ UNCHANGED << fs, fsize, output, errors, timedOut, exitCode, searchResult >>
  /\ UNCHANGED << flVars, glVars, auVars, mgVars, hVars, coVars >>

\* ps.on("close"): lines 697-809; a killed renderer closes with code null
RMClose(code) ==
  /\ rmPc = "running"
  /\ (code = KilledExit) <=> timedOut
  /\ \E search \in Searches(fs, output, Scene) :
       searchResult' = RenderResult(output, errors, code, search)
  /\ exitCode' = code
  /\ rmPc' = "closed"
  /\ UNCHANGED << fs, fsize, output, errors, timedOut, childError >>
  /\ UNCHANGED << flVars, glVars, auVars, mgVars, hVars, coVars >>

(***************************************************************************)
(* generateUntilNoManimErrors (index.js 395-470).                          *)
(***************************************************************************)
ManimCodeKey == << "m", "a", "n", "i", "m", "_", "c", "o", "d", "e" >>
NoCodeText == << "N", "o", " ", "m", "a", "n", "i", "m", "_", "c", "o", "d", "e" >>

\* slip: only the object itself is tested, not its manim_code
NoManimCodeNullOnly(json) == ~Truthy(json)

\* line 407: !manimCodeJSON || !manimCodeJSON.manim_code
NoManimCode(json) ==
  \/ ~Truthy(json)
  \/ ~GetProp(json, ManimCodeKey).has
  \/ ~Truthy(GetProp(json, ManimCodeKey).val)

\* manimCodeJSON.manim_code
ManimCodeOf(json) == GetProp(json, ManimCodeKey).val

\* slip: the stderr text is compared without trimming it
NoErrorsUntrimmed(result) == result.errors = NoText

\* line 430: !manimResult.errors || manimResult.errors.trim() === ""
NoErrors(result) == result.errors = NoText \/ Trim(result.errors) = NoText

\* line 431: !!manimResult.videoPath
HasVideo(result) == result.videoPath /= Null

\* slip: the loop trusts the success flag, which follows the exit code
RenderSucceededByFlag(result) == result.success

\* line 433
RenderSucceeded(result) == NoErrors(result) /\ HasVideo(result)

\* slip: the slice ends one character early
SliceShort(text, n) == SubSeq(text, 1, IF Len(text) < n - 1 THEN Len(text) ELSE n - 1)

\* String.prototype.slice(0, n)
Slice(text, n) == SubSeq(text, 1, IF Len(text) < n THEN Len(text) ELSE n)

\* slip: the error text is attached whole
CorrectionPayloadUncut(plan, json, result) ==
  [plan EXCEPT !.keys = plan.keys \cup RepairKeys,
               !.previous_code = ManimCodeOf(json).s,
               !.manim_error = result.errors,
               !.manim_video_missing = ~HasVideo(result)]

\* slip: the payload is built without spreading the plan
CorrectionPayloadFresh(plan, json, result) ==
  [keys |-> {"scene_name"} \cup RepairKeys, scene_name |-> plan.scene_name,
   objects |-> "", actions |-> "", narration |-> "", captions |-> "",
   previous_code |-> ManimCodeOf(json).s,
   manim_error |-> Slice(result.errors, ErrorSliceLen),
   manim_video_missing |-> ~HasVideo(result)]

\* lines 452-457: the correction payload, a new object that the parameter
\* is bound to; the object the caller passed is not written
CorrectionPayload(plan, json, result) ==
  [plan EXCEPT !.keys = plan.keys \cup RepairKeys,
               !.previous_code = ManimCodeOf(json).s,
               !.manim_error = Slice(result.errors, ErrorSliceLen),
               !.manim_video_missing = ~HasVideo(result)]

\* slip: the loop runs once more than maxAttempts
AttemptsRemainOnceMore(a, maxAtt) == a <= maxAtt

\* line 402: attempt < maxAttempts
AttemptsRemain(a, maxAtt) == a < maxAtt

\* lines 409-414
NoCodeReturn(json, a) ==
  [keys |-> {"manimCode", "output", "errors", "attempts"},
   manimCode |-> json, output |-> <<>>, errors |-> NoCodeText,
   filePath |-> "", videoPath |-> Null, attempts |-> a]

\* lines 438-445
SuccessReturn(json, result, scene, a) ==
  [keys |-> {"manimCode", "output", "errors", "filePath", "videoPath", "attempts"},
   manimCode |-> json, output |-> result.output, errors |-> result.errors,
   filePath |-> scene, videoPath |-> result.videoPath, attempts |-> a]

\* slip: the exhausted result drops the located video
ExhaustedReturnNoVideo(json, result, maxAtt) ==
  [keys |-> {"manimCode", "output", "errors", "videoPath", "attempts"},
   manimCode |-> json, output |-> result.output, errors |-> result.errors,
   filePath |-> "", videoPath |-> Null, attempts |-> maxAtt]

\* lines 463-469
ExhaustedReturn(json, result, maxAtt) ==
  [keys |-> {"manimCode", "output", "errors", "videoPath", "attempts"},
   manimCode |-> json, output |-> result.output, errors |-> result.errors,
   filePath |-> "", videoPath |-> result.videoPath, attempts |-> maxAtt]

NoReturn ==
  [keys |-> {}, manimCode |-> JNull, output |-> <<>>, errors |-> NoText,
   filePath |-> "", videoPath |-> Null, attempts |-> 0]

NoRender == [code |-> NoText, errors |-> NoText, attempt |-> 0, video |-> Null]

\* lines 403-406: attempt++, then feedbackLoop(generateManimCode, scenePlan)
BeginAttempt ==
  /\ attempt' = attempt + 1
  /\ pc' = "generating"
  /\ genStarts' = genStarts + 1
  /\ genPlan' = scenePlan
  /\ FLEnter(PlanInput(scenePlan), DefaultMaxRetries)
  /\ UNCHANGED << maxAttempts, handler, scenePlan, manimCodeJSON, manimResult, glResult,
                  scriptFile, writes, renders, lastRender >>
  /\ UNCHANGED << rmVars, auVars, mgVars, hVars, coVars >>

\* first pass through the loop head, line 402
GLStart ==
  /\ pc = "start"
  /\ AttemptsRemain(attempt, maxAttempts)
  /\ BeginAttempt

\* line 459 elapsed and the loop condition holds
GLRetry ==
  /\ pc = "backoff"
  /\ AttemptsRemain(attempt, maxAttempts)
  /\ BeginAttempt

\* line 459 elapsed and the loop ends: lines 462-469
GLExhausted ==
  /\ pc = "backoff"
  /\ ~AttemptsRemain(attempt, maxAttempts)
  /\ glResult' = ExhaustedReturn(manimCodeJSON, manimResult, maxAttempts)
  /\ pc' = "returned"
  /\ UNCHANGED << attempt, maxAttempts, handler, scenePlan, manimCodeJSON, manimResult,
                  scriptFile, writes, renders, genStarts, genPlan, lastRender >>
  /\ UNCHANGED << flVars, rmVars, auVars, mgVars, hVars, coVars >>

\* feedbackLoop returned nothing usable: lines 406-415
GLNoCode ==
  /\ pc = "generating" /\ flPc = "done"
  /\ NoManimCode(flResult)
  /\ manimCodeJSON' = flResult
  /\ glResult' = NoCodeReturn(flResult, attempt)
  /\ pc' = "returned"
  /\ UNCHANGED << attempt, maxAttempts, handler, scenePlan, manimResult, scriptFile,
                  writes, renders, genStarts, genPlan, lastRender >>
  /\ UNCHANGED << flVars, rmVars, auVars, mgVars, hVars, coVars >>

\* manim_code is truthy but not a string: writeFile rejects, line 418
GLWriteThrows ==
  /\ pc = "generating" /\ flPc = "done"
  /\ ~NoManimCode(flResult)
  /\ ManimCodeOf(flResult).t /= "string"
  /\ manimCodeJSON' = flResult
  /\ pc' = "threw"
  /\ UNCHANGED << attempt, maxAttempts, handler, scenePlan, manimResult, glResult, scriptFile,
                  writes, renders, genStarts, genPlan, lastRender >>
  /\ UNCHANGED << flVars, rmVars, auVars, mgVars, hVars, coVars >>

\* lines 417-428: the code is written to scripts/<scene_name>.py and the
\* renderer is spawned on it
GLWriteAndSpawn ==
  /\ pc = "generating" /\ flPc = "done"
  /\ ~NoManimCode(flResult)
  /\ ManimCodeOf(flResult).t = "string"
  /\ manimCodeJSON' = flResult
  /\ scriptFile' = ManimCodeOf(flResult).s
  /\ writes' = writes + 1
  /\ renders' = renders + 1
  /\ pc' = "rendering"
  /\ loaded' = Null
  /\ UNCHANGED << attempt, maxAttempts, handler, scenePlan, manimResult, glResult,
                  genStarts, genPlan, lastRender >>
  /\ UNCHANGED << flVars, rmVars, auVars, mgVars, hVars, otherPc, otherCode, callerPlan >>

\* what one run of the renderer does: whether it writes the scene's video,
\* what it prints, its stderr text and its exit code
CodeA == << "A" >>
CodeB == << "B" >>
ErrText == << "E", "r", "r" >>
BlankText == << " ", "\n" >>
LongError == [i \in 1..(ErrorSliceLen + 1) |-> IF i <= ErrorSliceLen THEN "e" ELSE "X"]
StderrTexts == { NoText, BlankText, ErrText, LongError }

WriteKinds == { "none", "empty", "full" }
RenderBehaviours ==
  [wrote : WriteKinds, lines : { <<>>, << ReadyLine(FQuality) >> },
   errors : StderrTexts, code : ExitCodes]

\* the renderer writes media/videos/<scene>/480p15/<scene>.mp4 with the
\* newest modification time
DiskAfter(disk, b) ==
  IF b.wrote /= "none" THEN [disk EXCEPT ![FQuality] = MaxMtime] ELSE disk

\* a renderer that ends while the file is being written leaves it empty
SizeAfter(size, b) ==
  CASE b.wrote = "full" -> [size EXCEPT ![FQuality] = SomeBytes]
    [] b.wrote = "empty" -> [size EXCEPT ![FQuality] = 0]
    [] OTHER -> size

\* slip: the renderer runs whatever the scratch file holds when it closes
RanOnFileAtClose == scriptFile

\* line 428: the renderer runs the source it read from filePath; it reads
\* the file at some moment between its spawn and its close
RanOn == IF loaded = Null THEN scriptFile ELSE loaded[1]

\* runManim resolved and the success test of line 433 passed: lines 428-446
GLRenderSucceeded(b) ==
  /\ pc = "rendering"
  /\ \E search \in Searches(DiskAfter(fs, b), b.lines, scenePlan.scene_name) :
       LET result == RenderResult(b.lines, b.errors, b.code, search)
       IN /\ RenderSucceeded(result)
          /\ manimResult' = result
          /\ lastRender' = [code |-> RanOn, errors |-> b.errors,
                            attempt |-> attempt, video |-> result.videoPath]
          /\ glResult' = SuccessReturn(manimCodeJSON, result, scenePlan.scene_name, attempt)
  /\ fs' = DiskAfter(fs, b)
  /\ fsize' = SizeAfter(fsize, b)
  /\ pc' = "returned"
  /\ UNCHANGED << attempt, maxAttempts, handler, scenePlan, manimCodeJSON, scriptFile,
                  writes, renders, genStarts, genPlan >>
  /\ UNCHANGED << flVars, auVars, mgVars, hVars, coVars, rmPc, output, errors, timedOut, childError, exitCode, searchResult >>

\* runManim resolved and the success test failed: lines 428-433, 448-459
GLRenderFailed(b) ==
  /\ pc = "rendering"
  /\ \E search \in Searches(DiskAfter(fs, b), b.lines, scenePlan.scene_name) :
       LET result == RenderResult(b.lines, b.errors, b.code, search)
       IN /\ ~RenderSucceeded(result)
          /\ manimResult' = result
          /\ lastRender' = [code |-> RanOn, errors |-> b.errors,
                            attempt |-> attempt, video |-> result.videoPath]
          /\ scenePlan' = CorrectionPayload(scenePlan, manimCodeJSON, result)
  /\ fs' = DiskAfter(fs, b)
  /\ fsize' = SizeAfter(fsize, b)
  /\ pc' = "backoff"
  /\ UNCHANGED << attempt, maxAttempts, handler, manimCodeJSON, glResult, scriptFile,
                  writes, renders, genStarts, genPlan >>
  /\ UNCHANGED << flVars, auVars, mgVars, hVars, coVars, rmPc, output, errors, timedOut, childError, exitCode, searchResult >>

\* the variables of the loop, which the handler's own steps leave alone
loopVars == << pc, attempt, maxAttempts, scenePlan, manimCodeJSON, manimResult,
               glResult, scriptFile, writes, renders, genStarts, genPlan, lastRender >>

NoTtsResponse == [status |-> 0, bytes |-> 0]

\* line 163: res.status(400).json({ error: "Description is required" })
InvalidResponse ==
  [status |-> 400, message |-> "Description is required", details |-> NoText,
   attempts |-> 0, opPath |-> FALSE]

\* lines 179-184: the 500 response with the loop's errors and attempts
NoVideoResponse(result) ==
  [status |-> 500, message |-> "Manim did not produce a video after retries",
   details |-> result.errors, attempts |-> result.attempts, opPath |-> FALSE]

\* lines 379-383: the 500 response of the handler's catch, with error.message
CaughtResponse(errorMessage) ==
  [status |-> 500, message |-> "Failed to generate video",
   details |-> << errorMessage >>, attempts |-> 0, opPath |-> FALSE]

\* slip: the success response names op.mp4 whether it was written or not
SuccessResponseOpAlways(result, opWritten) ==
  [status |-> 200, message |-> "success", details |-> result.errors,
   attempts |-> result.attempts, opPath |-> TRUE]

\* lines 361-376: the success response
SuccessResponse(result, opWritten) ==
  [status |-> 200, message |-> "success", details |-> result.errors,
   attempts |-> result.attempts, opPath |-> opWritten]

\* slip: the handler goes on whatever the loop returned
NoVideoPathNever(result) == FALSE

\* slip: only a result of the success return counts as having a video
NoVideoPathUnlessSuccess(result) ==
  result.videoPath = Null \/ "filePath" \notin result.keys

\* line 178: !fixedCodeResult.videoPath
NoVideoPath(result) == result.videoPath = Null

\* lines 176-191 of the /generateVideo handler: the loop returned a video
\* path, the handler goes on to narration synthesis
HProceed ==
  /\ pc = "returned" /\ handler = "awaiting"
  /\ ~NoVideoPath(glResult)
  /\ handler' = "narration"
  /\ UNCHANGED << loopVars, flVars, rmVars, auVars, mgVars, hVars, coVars >>

\* lines 178-185: no video path, the handler answers 500
HNoVideo ==
  /\ pc = "returned" /\ handler = "awaiting"
  /\ NoVideoPath(glResult)
  /\ handler' = "noVideo"
  /\ responses' = Append(responses, NoVideoResponse(glResult))
  /\ failures' = failures \cup { "render" }
  /\ UNCHANGED << ttsCalls, ttsResponse, muxCalls >>
  /\ UNCHANGED << loopVars, flVars, rmVars, auVars, mgVars, coVars >>

\* lines 377-384: the loop threw, the handler's catch answers 500
HCaught ==
  /\ pc = "threw" /\ handler = "awaiting"
  /\ handler' = "caught"
  /\ responses' = Append(responses, CaughtResponse("writeFile rejected"))
  /\ failures' = failures \cup { "write" }
  /\ UNCHANGED << ttsCalls, ttsResponse, muxCalls >>
  /\ UNCHANGED << loopVars, flVars, rmVars, auVars, mgVars, coVars >>

\* the renderer could not be spawned: runManim has no 'error' listener, the
\* event is an uncaught exception that ends the server process (lines 659-697)
GLRenderCrashed ==
  /\ pc = "rendering"
  /\ pc' = "crashed"
  /\ handler' = "crashed"
  /\ UNCHANGED << attempt, maxAttempts, scenePlan, manimCodeJSON, manimResult, glResult,
                  scriptFile, writes, renders, genStarts, genPlan, lastRender >>
  /\ UNCHANGED << flVars, rmVars, auVars, mgVars, hVars, coVars >>

(***************************************************************************)
(* The scratch file scripts/<scene_name>.py under two requests.  The path  *)
(* of line 417 depends on scene_name alone and nothing locks it, so a      *)
(* second request whose plan has the same scene_name writes the same file  *)
(* (line 418) and renders into the same media folder (line 428).  The      *)
(* second request is followed through one attempt.                         *)
(***************************************************************************)
\* the renderer spawned at line 428 reads the scratch file
RendererLoads ==
  /\ pc = "rendering" /\ loaded = Null
  /\ loaded' = Some(scriptFile)
  /\ UNCHANGED << otherPc, otherCode, callerPlan >>
  /\ UNCHANGED << flVars, glVars, rmVars, auVars, mgVars, hVars >>

\* lines 406-428 run by the second request: its code is written to the
\* same path and its renderer is spawned
OtherWrites(code) ==
  /\ otherPc = "generating"
  /\ otherCode' = code
  /\ scriptFile' = code
  /\ otherPc' = "rendering"
  /\ UNCHANGED << loaded, callerPlan >>
  /\ UNCHANGED << pc, attempt, maxAttempts, scenePlan, manimCodeJSON, manimResult,
                  glResult, writes, renders, genStarts, genPlan, lastRender, handler >>
  /\ UNCHANGED << flVars, rmVars, auVars, mgVars, hVars >>

\* the second request's renderer closes (line 697), having written its
\* video, or none, under the scene's media folder
OtherRendered(b) ==
  /\ otherPc = "rendering"
  /\ fs' = DiskAfter(fs, b)
  /\ fsize' = SizeAfter(fsize, b)
  /\ otherPc' = "returned"
  /\ UNCHANGED << otherCode, loaded, callerPlan >>
  /\ UNCHANGED << rmPc, output, errors, timedOut, childError, exitCode, searchResult >>
  /\ UNCHANGED << flVars, glVars, auVars, mgVars, hVars >>

(***************************************************************************)
(* padOrTrimAudioToMatch, createSilentAudio, getMediaDuration              *)
(* (lib/audio.js 10-141).  Durations are in milliseconds; the text that    *)
(* toFixed(2) produces is held as its number of hundredths of a second.    *)
(***************************************************************************)
EpsMs == 50
MinSilenceMs == 500
DefaultSilenceMs == 1000

NoFile == -1
NotMeasured == -1
NoLimit == -1

\* a null or empty audioPath
NoPath == [dir |-> "", prefix |-> "", stamp |-> 0]
VideoIn == [dir |-> "media", prefix |-> "SceneA", stamp |-> 0]
VoiceFile == [dir |-> "audio", prefix |-> "voice", stamp |-> 0]
\* a path that names no file
MissingVoice == [dir |-> "audio", prefix |-> "gone", stamp |-> 0]
\* join(outputDir, `${prefix}_${Date.now()}.m4a`)
ScratchName(prefix, now) == [dir |-> "scratch", prefix |-> prefix, stamp |-> now]
ScratchPrefixes == { "silent", "audio_trim", "pad_silent", "audio_padded" }
ScratchNames == { ScratchName(x, t) : x \in ScratchPrefixes, t \in 0..MaxClock }
\* a file an earlier reconciliation left in the scratch directory
Leftover == ScratchName("audio_trim", 0)
Paths == { VideoIn, VoiceFile, MissingVoice } \cup ScratchNames

Max(a, b) == IF a > b THEN a ELSE b
Min(a, b) == IF a < b THEN a ELSE b

\* x || 1 on a number of seconds
OrOne(d) == IF d = 0 THEN DefaultSilenceMs ELSE d

\* Number.prototype.toFixed(2): the nearest hundredth
ToFixed2(ms) == (ms + 5) \div 10
\* the duration ffmpeg reads from such a text
FromFixed2(cs) == cs * 10

\* getMediaDuration, lines 10-31: the duration ffprobe prints, 0 when
\* ffprobe fails or prints no number
getMediaDuration(files, path, ok) ==
  IF ok /\ files[path] /= NoFile THEN files[path] ELSE 0

\* slip: only a null audioPath counts as missing
AudioMissingNullOnly(files, path) == path = NoPath

\* line 65: !audioPath || !fs.existsSync(audioPath)
AudioMissing(files, path) == path = NoPath \/ files[path] = NoFile

\* slip: without the minimum of half a second
SilentRequestNoMin(durationMs) == ToFixed2(OrOne(durationMs))

\* createSilentAudio, line 35: Math.max(0.5, Number(durationSec) || 1).toFixed(2)
SilentRequest(durationMs) == ToFixed2(Max(MinSilenceMs, OrOne(durationMs)))

\* slip: without the tolerance
AudioLongerNoEps(a, v) == a > v

\* line 77: audioDur > videoDur + eps
AudioLonger(a, v) == a > v + EpsMs

\* line 104: audioDur < videoDur - eps
AudioShorter(a, v) == a < v - EpsMs

\* slip: the limit is cut to whole seconds
TrimLimitWhole(v) == (v \div 1000) * 100

\* line 85: videoDur.toFixed(2)
TrimLimit(v) == ToFixed2(v)

\* slip: silence as long as the video, not as the deficit
PadDiffWholeVideo(v, a) == Max(MinSilenceMs, v)

\* line 105: Math.max(0.5, videoDur - audioDur)
PadDiff(v, a) == Max(MinSilenceMs, v - a)

\* slip: the silence is the first input
ConcatInputsSilenceFirst(audio, silence) == << silence, audio >>

\* lines 114-117: -i audioPath -i silentPart
ConcatInputs(audio, silence) == << audio, silence >>

\* one ffmpeg process: its -i inputs, its -t limit in hundredths, its output
FfmpegRun(inputs, limit, out) == [inputs |-> inputs, limit |-> limit, out |-> out]

\* what ffmpeg writes: silence of the requested length (lines 36-48), the
\* input cut at the limit (lines 80-91), the inputs one after the other
\* (lines 112-127)
SilenceOut(limit) == FromFixed2(limit)
TrimOut(files, input, limit) == Min(files[input], FromFixed2(limit))
ConcatOut(files, inputs) == files[inputs[1]] + files[inputs[2]]

\* Date.now(): the clock, or one tick later
Nows == clock..Min(clock + 1, MaxClock)

\* lines 63-73: the existence test and the duration probes
AUMeasure(vOk, aOk) ==
  /\ auPc = "start"
  /\ IF AudioMissing(media, audioPath)
     THEN /\ videoDur' = getMediaDuration(media, VideoIn, vOk)
          /\ audioDur' = NotMeasured
          /\ probes' = probes + 1
          /\ auPc' = "silence"
     ELSE /\ videoDur' = getMediaDuration(media, VideoIn, vOk)
          /\ audioDur' = getMediaDuration(media, audioPath, aOk)
          /\ probes' = probes + 2
          /\ auPc' = "measured"
  /\ UNCHANGED << media, mediaAtCall, audioPath, clock, silentPart, ffmpegRuns, auResult >>
  /\ UNCHANGED << flVars, glVars, rmVars, mgVars, hVars, coVars >>

\* lines 67-69 with createSilentAudio: no audio, silence for the video
AUSilence(now, ok) ==
  /\ auPc = "silence"
  /\ LET out == ScratchName("silent", now)
         limit == SilentRequest(OrOne(videoDur))
     IN /\ ffmpegRuns' = Append(ffmpegRuns, FfmpegRun(<<>>, limit, out))
        /\ IF ok
           THEN /\ media' = [media EXCEPT ![out] = SilenceOut(limit)]
                /\ auResult' = out
                /\ auPc' = "returned"
           ELSE /\ auPc' = "rejected"
                /\ UNCHANGED << media, auResult >>
  /\ clock' = now
  /\ UNCHANGED << mediaAtCall, audioPath, videoDur, audioDur, silentPart, probes >>
  /\ UNCHANGED << flVars, glVars, rmVars, mgVars, hVars, coVars >>

\* lines 77-101: the audio is longer than the video, cut it
AUTrim(now, ok) ==
  /\ auPc = "measured"
  /\ AudioLonger(audioDur, videoDur)
  /\ LET out == ScratchName("audio_trim", now)
         limit == TrimLimit(videoDur)
     IN /\ ffmpegRuns' = Append(ffmpegRuns, FfmpegRun(<< audioPath >>, limit, out))
        /\ IF ok
           THEN /\ media' = [media EXCEPT ![out] = TrimOut(media, audioPath, limit)]
                /\ auResult' = out
                /\ auPc' = "returned"
           ELSE /\ auPc' = "rejected"
                /\ UNCHANGED << media, auResult >>
  /\ clock' = now
  /\ UNCHANGED << mediaAtCall, audioPath, videoDur, audioDur, silentPart, probes >>
  /\ UNCHANGED << flVars, glVars, rmVars, mgVars, hVars, coVars >>

\* lines 104-107 with createSilentAudio: the silence to append
AUPadSilence(now, ok) ==
  /\ auPc = "measured"
  /\ ~AudioLonger(audioDur, videoDur)
  /\ AudioShorter(audioDur, videoDur)
  /\ LET out == ScratchName("pad_silent", now)
         limit == SilentRequest(PadDiff(videoDur, audioDur))
     IN /\ ffmpegRuns' = Append(ffmpegRuns, FfmpegRun(<<>>, limit, out))
        /\ silentPart' = out
        /\ IF ok
           THEN /\ media' = [media EXCEPT ![out] = SilenceOut(limit)]
                /\ auPc' = "padding"
           ELSE /\ auPc' = "rejected"
                /\ UNCHANGED media
  /\ clock' = now
  /\ UNCHANGED << mediaAtCall, audioPath, videoDur, audioDur, probes, auResult >>
  /\ UNCHANGED << flVars, glVars, rmVars, mgVars, hVars, coVars >>

\* lines 109-136: the audio and the silence, concatenated
AUPadConcat(now, ok) ==
  /\ auPc = "padding"
  /\ LET out == ScratchName("audio_padded", now)
         inputs == ConcatInputs(audioPath, silentPart)
     IN /\ ffmpegRuns' = Append(ffmpegRuns, FfmpegRun(inputs, NoLimit, out))
        /\ IF ok
           THEN /\ media' = [media EXCEPT ![out] = ConcatOut(media, inputs)]
                /\ auResult' = out
                /\ auPc' = "returned"
           ELSE /\ auPc' = "rejected"
                /\ UNCHANGED << media, auResult >>
  /\ clock' = now
  /\ UNCHANGED << mediaAtCall, audioPath, videoDur, audioDur, silentPart, probes >>
  /\ UNCHANGED << flVars, glVars, rmVars, mgVars, hVars, coVars >>

\* line 140: the durations are within the tolerance
AUKeep ==
  /\ auPc = "measured"
  /\ ~AudioLonger(audioDur, videoDur)
  /\ ~AudioShorter(audioDur, videoDur)
  /\ auResult' = audioPath
  /\ auPc' = "returned"
  /\ UNCHANGED << media, mediaAtCall, audioPath, clock, videoDur, audioDur,
                  silentPart, ffmpegRuns, probes >>
  /\ UNCHANGED << flVars, glVars, rmVars, mgVars, hVars, coVars >>

(***************************************************************************)
(* mergeVideoAndAudio and its volume, fade and filter variants             *)
(* (index.js 930-1278).  The call is an async function: a throw before its *)
(* promise executor and a rejection of ensureAudioForMerge reject the      *)
(* promise the call returned.                                              *)
(***************************************************************************)
MergeVariants == { "plain", "volume", "fade", "filter" }
OutStates == { "absent", "empty", "written" }
\* the exit code the close event carries after a failed spawn
SpawnFailedExit == -3

NoError == [kind |-> "none", path |-> NoPath, code |-> NoExit]
MergeError(kind, path, code) == [kind |-> kind, path |-> path, code |-> code]

\* slip: only the empty path is refused
VideoMissingEmptyOnly(files, path) == path = NoPath

\* lines 941, 1035, 1116, 1223: !videoPath || !fs.existsSync(videoPath)
VideoMissing(files, path) == path = NoPath \/ files[path] = NoFile

\* slip: the size of the output is not looked at
MergeSucceededNoSize(variant, code, out) == code = 0 /\ out /= "absent"

\* lines 992-994 (existsSync and stats.size > 0) and lines 1081, 1187, 1270
\* (existsSync only)
MergeSucceeded(variant, code, out) ==
  IF variant = "plain"
  THEN code = 0 /\ out /= "absent" /\ out = "written"
  ELSE code = 0 /\ out /= "absent"

\* lines 1005-1007, 1087, 1191, 1274: the error a close event rejects with
CloseError(variant, code, out) ==
  IF variant = "plain"
  THEN IF code = 0 /\ out /= "absent"
       THEN MergeError("Output file created but has zero size", NoPath, NoExit)
       ELSE MergeError("ffmpeg exited with code", NoPath, code)
  ELSE MergeError("ffmpeg failed with code", NoPath, code)

\* line 987: only mergeVideoAndAudio listens for the transcoder's 'error'
ListensForSpawnError(variant) == variant = "plain"

\* resolve and reject act on a pending promise only
Settle(state, err) ==
  IF mgPromise = "pending"
  THEN mgPromise' = state /\ mgError' = err
  ELSE UNCHANGED << mgPromise, mgError >>

Spawned(cmd, inputs) == [cmd |-> cmd, inputs |-> inputs]

\* lines 940-948: the video test, mkdir, and the call of ensureAudioForMerge
MCheckVideo ==
  /\ mgPc = "start"
  /\ IF VideoMissing(media, mgVideo)
     THEN /\ mgPc' = "threw"
          /\ Settle("rejected", MergeError("Video file not found", mgVideo, NoExit))
          /\ UNCHANGED << mgDir, auVars >>
     ELSE /\ mgPc' = "reconciling"
          /\ mgDir' = TRUE
          /\ auPc' = "start"
          /\ mediaAtCall' = media
          /\ UNCHANGED << mgPromise, mgError, media, audioPath, clock, videoDur,
                          audioDur, silentPart, ffmpegRuns, probes, auResult >>
  /\ UNCHANGED << mgVariant, mgVideo, mgOut, mgSpawns, mgCode >>
  /\ UNCHANGED << flVars, glVars, rmVars, hVars, coVars >>

\* lines 948-979 (1041-1049, 1122-1134, 1229-1238): the audio is prepared,
\* the executor spawns ffprobe (fade) or the transcoder
MReconciled ==
  /\ mgPc = "reconciling" /\ auPc = "returned"
  /\ IF mgVariant = "fade"
     THEN /\ mgSpawns' = Append(mgSpawns, Spawned("ffprobe", << mgVideo >>))
          /\ mgPc' = "probing"
     ELSE /\ mgSpawns' = Append(mgSpawns, Spawned("ffmpeg", << mgVideo, auResult >>))
          /\ mgPc' = "transcoding"
  /\ UNCHANGED << mgVariant, mgVideo, mgDir, mgOut, mgPromise, mgError, mgCode >>
  /\ UNCHANGED << flVars, glVars, rmVars, auVars, hVars, coVars >>

\* line 948: ensureAudioForMerge rejected, the call rejects with its error
MReconcileRejected ==
  /\ mgPc = "reconciling" /\ auPc = "rejected"
  /\ mgPc' = "threw"
  /\ Settle("rejected", MergeError("ffmpeg failed", NoPath, NoExit))
  /\ UNCHANGED << mgVariant, mgVideo, mgDir, mgOut, mgSpawns, mgCode >>
  /\ UNCHANGED << flVars, glVars, rmVars, auVars, hVars, coVars >>

\* lines 1196-1198: ffprobe could not be spawned
MProbeError ==
  /\ mgPc = "probing"
  /\ mgPc' = "probeFailed"
  /\ Settle("rejected", MergeError("Failed to get video duration", NoPath, NoExit))
  /\ UNCHANGED << mgVariant, mgVideo, mgDir, mgOut, mgSpawns, mgCode >>
  /\ UNCHANGED << flVars, glVars, rmVars, auVars, hVars, coVars >>

\* lines 1149-1173: ffprobe closed (after a failed spawn too), the
\* transcoder is spawned
MProbeClosed ==
  /\ mgPc \in { "probing", "probeFailed" }
  /\ mgSpawns' = Append(mgSpawns, Spawned("ffmpeg", << mgVideo, auResult >>))
  /\ mgPc' = "transcoding"
  /\ UNCHANGED << mgVariant, mgVideo, mgDir, mgOut, mgPromise, mgError, mgCode >>
  /\ UNCHANGED << flVars, glVars, rmVars, auVars, hVars, coVars >>

\* lines 987-989: the transcoder could not be spawned.  Without a listener
\* the 'error' event is an uncaught exception, which ends the process
MSpawnError ==
  /\ mgPc = "transcoding"
  /\ IF ListensForSpawnError(mgVariant)
     THEN /\ mgPc' = "spawnFailed"
          /\ Settle("rejected", MergeError("Failed to start ffmpeg", NoPath, NoExit))
     ELSE /\ mgPc' = "crashed"
          /\ UNCHANGED << mgPromise, mgError >>
  /\ UNCHANGED << mgVariant, mgVideo, mgDir, mgOut, mgSpawns, mgCode >>
  /\ UNCHANGED << flVars, glVars, rmVars, auVars, hVars, coVars >>

\* lines 990-1009, 1079-1089, 1185-1193, 1268-1276: the transcoder closed
MClose(code, out) ==
  /\ \/ mgPc = "transcoding"
     \/ mgPc = "spawnFailed" /\ code = SpawnFailedExit /\ out = "absent"
  /\ mgPc = "transcoding" => code /= SpawnFailedExit
  /\ mgPc' = "closed"
  /\ mgCode' = code
  /\ mgOut' = out
  /\ IF MergeSucceeded(mgVariant, code, out)
     THEN Settle("resolved", NoError)
     ELSE Settle("rejected", CloseError(mgVariant, code, out))
  /\ UNCHANGED << mgVariant, mgVideo, mgDir, mgSpawns >>
  /\ UNCHANGED << flVars, glVars, rmVars, auVars, hVars, coVars >>

(***************************************************************************)
(* The /generateVideo handler (index.js 159-385): validation, planning,    *)
(* the repair loop, narration synthesis, the mux, the op.mp4 copy, the     *)
(* optional feedback, and the response.                                    *)
(***************************************************************************)
SceneNameKey == << "s", "c", "e", "n", "e", "_", "n", "a", "m", "e" >>
SceneText == << "S", "c", "e", "n", "e", "A" >>

\* slip: any parsed object counts as a plan
HasSceneNameAnyObject(json) == json.t = "object"

\* line 172: scenePlan.scene_name is truthy
HasSceneName(json) == Truthy(GetProp(json, SceneNameKey).val)

\* line 172: reading a property of null is a TypeError, a plan without a
\* scene name is the Error thrown there
PlanError(json) ==
  IF json.t = "null" THEN "TypeError" ELSE "Scene plan generation failed"

\* the parsed plan as the object handed to generateUntilNoManimErrors
PlanOf(json) ==
  [keys |-> { "scene_name" },
   scene_name |-> IF GetProp(json, SceneNameKey).val.s = SceneText THEN Scene ELSE "Other",
   objects |-> "", actions |-> "", narration |-> "", captions |-> "",
   previous_code |-> NoText, manim_error |-> NoText, manim_video_missing |-> FALSE]

\* the HTTP responses of the text-to-speech service
TtsResponses == [status : { 200, 404, 500 }, bytes : { 0, SomeBytes }]

\* slip: a 200 response counts whatever its body
TtsSucceedsAnyBody(r) == r.status = 200

\* lib/audio.js 231 (validateStatus), 234-238 (status), 240-243 (empty body)
TtsSucceeds(r) == r.status < 500 /\ r.status = 200 /\ r.bytes /= 0

TtsError(r) ==
  IF r.status >= 500 THEN "Request failed with status code"
  ELSE IF r.status /= 200 THEN "ElevenLabs API returned"
  ELSE "ElevenLabs returned empty audio data"

\* the stages whose failure the handler catches by itself (lines 271-274,
\* 341-344, 351-354, 356-359)
SwallowedStages == { "op", "feedback" }

\* what the optional feedback stage does: lines 276-359
FeedbackOutcomes == { "ok", "failed", "renderCrashed" }

Respond(r) == responses' = Append(responses, r)

\* lines 161-171: validation, then the planning call
HReceive(hasDescription) ==
  /\ handler = "received"
  /\ IF hasDescription
     THEN /\ handler' = "planning"
          /\ FLEnter(DescriptionInput, DefaultMaxRetries)
          /\ UNCHANGED hVars
     ELSE /\ handler' = "invalid"
          /\ Respond(InvalidResponse)
          /\ UNCHANGED << flVars, ttsCalls, ttsResponse, muxCalls, failures >>
  /\ UNCHANGED << loopVars, rmVars, auVars, mgVars, coVars >>

\* lines 172-176: the plan is tested, the repair loop is called
HPlanned ==
  /\ handler = "planning" /\ flPc = "done"
  /\ IF HasSceneName(flResult)
     THEN /\ handler' = "awaiting"
          /\ pc' = "start"
          /\ scenePlan' = PlanOf(flResult)
          /\ callerPlan' = PlanOf(flResult)
          /\ UNCHANGED hVars
     ELSE /\ handler' = "caught"
          /\ Respond(CaughtResponse(PlanError(flResult)))
          /\ failures' = failures \cup { "planning" }
          /\ UNCHANGED << pc, scenePlan, callerPlan, ttsCalls, ttsResponse, muxCalls >>
  /\ UNCHANGED << attempt, maxAttempts, manimCodeJSON, manimResult, glResult,
                  scriptFile, writes, renders, genStarts, genPlan, lastRender >>
  /\ UNCHANGED << flVars, rmVars, auVars, mgVars, otherPc, otherCode, loaded >>

\* lines 187-201: generateNepaliVoice, then the call of mergeVideoAndAudio
\* on the rendered video (of duration v) and the voice file (of duration a)
HTts(r, v, a) ==
  /\ handler = "narration"
  /\ ttsCalls' = ttsCalls + 1
  /\ ttsResponse' = r
  /\ IF TtsSucceeds(r)
     THEN /\ handler' = "merging"
          /\ muxCalls' = muxCalls + 1
          /\ media' = [media EXCEPT ![VideoIn] = v, ![VoiceFile] = a]
          /\ audioPath' = VoiceFile
          /\ mgPc' = "start" /\ mgVariant' = "plain" /\ mgVideo' = VideoIn
          /\ UNCHANGED << responses, failures >>
     ELSE /\ handler' = "caught"
          /\ Respond(CaughtResponse(TtsError(r)))
          /\ failures' = failures \cup { "tts" }
          /\ UNCHANGED << muxCalls, media, audioPath, mgPc, mgVariant, mgVideo >>
  /\ UNCHANGED << mediaAtCall, clock, videoDur, audioDur, silentPart, ffmpegRuns,
                  probes, auPc, auResult >>
  /\ UNCHANGED << mgDir, mgOut, mgSpawns, mgPromise, mgError, mgCode >>
  /\ UNCHANGED << loopVars, flVars, rmVars, coVars >>

\* line 194 resolved: the handler goes on to the op.mp4 copy
HMerged ==
  /\ handler = "merging" /\ mgPromise = "resolved"
  /\ handler' = "op"
  /\ UNCHANGED << loopVars, flVars, rmVars, auVars, mgVars, hVars, coVars >>

\* line 194 rejected: the handler's catch answers 500
HMergeFailed ==
  /\ handler = "merging" /\ mgPromise = "rejected"
  /\ handler' = "caught"
  /\ Respond(CaughtResponse(mgError.kind))
  /\ failures' = failures \cup { "mux" }
  /\ UNCHANGED << ttsCalls, ttsResponse, muxCalls >>
  /\ UNCHANGED << loopVars, flVars, rmVars, auVars, mgVars, coVars >>

\* lines 203-274: ensureAudioForMerge and the transcoder writing op.mp4,
\* inside a try whose catch sets opPath to null
HOp(ok) ==
  /\ handler = "op"
  /\ handler' = "feedback"
  /\ failures' = IF ok THEN failures ELSE failures \cup { "op" }
  /\ UNCHANGED << responses, ttsCalls, ttsResponse, muxCalls >>
  /\ UNCHANGED << loopVars, flVars, rmVars, auVars, mgVars, coVars >>

\* lines 276-376: the optional feedback, inside a try whose catch goes on,
\* then the success response.  The feedback render goes through runManim:
\* a renderer that cannot be spawned ends the server process
HFeedback(outcome) ==
  /\ handler = "feedback"
  /\ IF outcome = "renderCrashed"
     THEN /\ handler' = "crashed"
          /\ UNCHANGED hVars
     ELSE /\ handler' = "succeeded"
          /\ failures' = IF outcome = "ok" THEN failures ELSE failures \cup { "feedback" }
          /\ Respond(SuccessResponse(glResult, "op" \notin failures))
          /\ UNCHANGED << ttsCalls, ttsResponse, muxCalls >>
  /\ UNCHANGED << loopVars, flVars, rmVars, auVars, mgVars, coVars >>

(***************************************************************************)
(* Texts the language model answers with.                                  *)
(***************************************************************************)
Quoted(text) == << Q >> \o text \o << Q >>
Obj1(key, valueText) == << "{" >> \o Quoted(key) \o << ":" >> \o valueText \o << "}" >>
Fenced(lead, body, trail) == lead \o body \o trail

\* answers of generateManimCode in the repair loop
CodeContents ==
  { Obj1(ManimCodeKey, Quoted(CodeA)),
    Fenced(Fence \o JsonTag \o << NL >>, Obj1(ManimCodeKey, Quoted(CodeB)), << NL >> \o Fence),
    << "o", "o", "p", "s" >>,
    Obj1(<< "x" >>, << "1" >>),
    << "n", "u", "l", "l" >>,
    Obj1(ManimCodeKey, << "1" >>) }

\* answers fed to a stand-alone feedbackLoop: padding, lead, body, trail, padding
Pads == { << <<>>, <<>> >>, << << " " >>, <<>> >>, << <<>>, << " " >> >>, << << NL >>, << NL >> >> }
Leads == { <<>>, Fence, Fence \o JsonTag, Fence \o JsonTag \o << NL >>,
           Fence \o << NL >>, Fence \o Fence }
Trails == { <<>>, Fence, << NL >> \o Fence }
ValidBodies ==
  { Obj1(<< "a" >>, << "1" >>),
    << "{", " " >> \o Quoted(<< "a" >>) \o << " ", ":", NL >> \o Quoted(<< "b" >>) \o << " ", "}" >>,
    Obj1(<< "a" >>, Quoted(Fence)) }
InvalidBodies == { << "o", "o", "p", "s" >>, <<>> }
Bodies == ValidBodies \cup InvalidBodies

FeedbackContents ==
  { p[1] \o Fenced(l, b, t) \o p[2] : p \in Pads, l \in Leads, b \in Bodies, t \in Trails }

(***************************************************************************)
(* Initial values of the components a specification does not exercise.     *)
(***************************************************************************)
FLIdle ==
  /\ flPc = "idle" /\ flAttempt = 0 /\ flMax = DefaultMaxRetries
  /\ flInput = DescriptionInput /\ lastRawContent = NoText /\ flResult = JNull
  /\ flCalls = 0 /\ flWaits = 0 /\ flOutcome = "none"
  /\ flResponse = NoText /\ flStripped = NoText /\ flReceived = FALSE

GLOff(p, h) ==
  /\ pc = p /\ attempt = 0 /\ manimCodeJSON = JNull
  /\ manimResult = InitialManimResult /\ glResult = NoReturn
  /\ scriptFile = NoText /\ writes = 0 /\ renders = 0 /\ genStarts = 0
  /\ genPlan = NoPlan /\ lastRender = NoRender /\ handler = h

AUOff ==
  /\ auPc = "off" /\ media = [p \in Paths |-> NoFile] /\ mediaAtCall = media
  /\ audioPath = NoPath /\ clock = 1 /\ videoDur = NotMeasured
  /\ audioDur = NotMeasured /\ silentPart = NoPath /\ ffmpegRuns = <<>>
  /\ probes = 0 /\ auResult = NoPath

MGOff ==
  /\ mgPc = "off" /\ mgVariant = "plain" /\ mgVideo = NoPath /\ mgDir = FALSE
  /\ mgOut = "absent" /\ mgSpawns = <<>> /\ mgPromise = "pending"
  /\ mgError = NoError /\ mgCode = NoExit

HOff ==
  /\ responses = <<>> /\ ttsCalls = 0 /\ ttsResponse = NoTtsResponse
  /\ muxCalls = 0 /\ failures = {}

COOff ==
  /\ otherPc = "off" /\ otherCode = NoText /\ loaded = Null
  /\ callerPlan = scenePlan

RMOff(p) ==
  /\ rmPc = p /\ output = <<>> /\ errors = NoText /\ timedOut = FALSE
  /\ childError = FALSE /\ exitCode = NoExit /\ searchResult = InitialManimResult

(***************************************************************************)
(* Spec: one call generateUntilNoManimErrors(scenePlan, maxAttempts), with *)
(* its feedbackLoop calls and its renders.                                 *)
(***************************************************************************)
InitialDisks ==
  { EmptyDisk, [EmptyDisk EXCEPT ![FQuality] = 1], [EmptyDisk EXCEPT ![FOutputs] = 1] }

Init ==
  /\ FLIdle
  /\ GLOff("start", "awaiting")
  /\ maxAttempts \in 1..MaxAttemptsBound
  /\ scenePlan = InitialPlan(Scene)
  /\ RMOff("off")
  /\ fs \in InitialDisks
  /\ fsize = FullSizes(fs)
  /\ AUOff
  /\ MGOff
  /\ HOff
  /\ COOff

Next ==
  \/ GLStart
  \/ \E c \in CodeContents : FLParsed(c)
  \/ \E c \in CodeContents : FLUnparsable(c)
  \/ FLThrew
  \/ FLRetry
  \/ FLGiveUp
  \/ GLNoCode
  \/ GLWriteThrows
  \/ GLWriteAndSpawn
  \/ \E b \in RenderBehaviours : GLRenderSucceeded(b)
  \/ \E b \in RenderBehaviours : GLRenderFailed(b)
  \/ GLRetry
  \/ GLExhausted
  \/ GLRenderCrashed
  \/ HProceed
  \/ HNoVideo
  \/ HCaught

Spec == Init /\ [][Next]_vars

(***************************************************************************)
(* SpecFeedback: one call feedbackLoop(generateFn, input, maxRetries).     *)
(***************************************************************************)
InitFeedback ==
  /\ flPc = "call" /\ flAttempt = 1 /\ flMax \in 1..MaxRetriesBound
  /\ flInput = DescriptionInput /\ lastRawContent = NoText /\ flResult = JNull
  /\ flCalls = 0 /\ flWaits = 0 /\ flOutcome = "none"
  /\ flResponse = NoText /\ flStripped = NoText /\ flReceived = FALSE
  /\ GLOff("off", "awaiting")
  /\ maxAttempts = DefaultMaxAttempts
  /\ scenePlan = NoPlan
  /\ RMOff("off")
  /\ fs = EmptyDisk
  /\ fsize = FullSizes(fs)
  /\ AUOff
  /\ MGOff
  /\ HOff
  /\ COOff

NextFeedback ==
  \/ \E c \in FeedbackContents : FLParsed(c)
  \/ \E c \in FeedbackContents : FLUnparsable(c)
  \/ FLThrew
  \/ FLRetry
  \/ FLGiveUp

SpecFeedback == InitFeedback /\ [][NextFeedback]_vars

(***************************************************************************)
(* SpecSearch: one run of the renderer under runManim, on any disk.        *)
(***************************************************************************)
SearchLines ==
  { PlainLine, ReadyLine(FQuality), ReadyLine(FOutputs), PartialLine(FSceneSub) }
SearchStderr == { ErrText }

\* The search compares modification times with each other and with 0
\* (newestMtime starts at 0, line 892): a disk stands for every disk with
\* the same files, the same times equal to 0 and the same order of times,
\* so the times above 0 are taken without gaps.
NoGaps(disk) ==
  \A t \in 2..MaxMtime :
     (\E f \in Files : disk[f] = t) => (\E g \in Files : disk[g] = t - 1)

InitSearch ==
  /\ FLIdle
  /\ GLOff("off", "awaiting")
  /\ maxAttempts = DefaultMaxAttempts
  /\ scenePlan = InitialPlan(Scene)
  /\ RMOff("running")
  /\ fs \in { d \in Disks : NoGaps(d) }
  /\ fsize = FullSizes(fs)
  /\ AUOff
  /\ MGOff
  /\ HOff
  /\ COOff

NextSearch ==
  \/ \E line \in SearchLines : RMStdout(line)
  \/ \E chunk \in SearchStderr : RMStderr(chunk)
  \/ RMTimeout
  \/ RMChildError
  \/ \E code \in ExitCodes \cup { KilledExit } : RMClose(code)

SpecSearch == InitSearch /\ [][NextSearch]_vars

\* FairSpecRun: one run of the renderer on the disks of Init, where the
\* renderer ends: it exits by itself, or the timer of line 688 fires and
\* the killed process closes
InitRun ==
  /\ FLIdle
  /\ GLOff("off", "awaiting")
  /\ maxAttempts = DefaultMaxAttempts
  /\ scenePlan = InitialPlan(Scene)
  /\ RMOff("running")
  /\ fs \in InitialDisks
  /\ fsize = FullSizes(fs)
  /\ AUOff
  /\ MGOff
  /\ HOff
  /\ COOff

FairSpecRun == InitRun /\ [][NextSearch]_vars /\ WF_vars(NextSearch)

(***************************************************************************)
(* SpecAudio: one call padOrTrimAudioToMatch(videoPath, audioPath,         *)
(* outputDir) on a video and an audio of any of the durations below.       *)
(***************************************************************************)
VideoDurations == { 300, 10000, 10006 }
AudioDurations == { 200, 7000, 9700, 9940, 9950, 10000, 10004, 10050, 10060, 12000 }
AudioArgs == { NoPath, MissingVoice, VoiceFile, Leftover }

MediaWith(v, ap, a) ==
  [p \in Paths |->
     IF p = VideoIn THEN v
     ELSE IF p = ap /\ ap \in { VoiceFile, Leftover } THEN a
     ELSE NoFile]

InitAudio ==
  /\ FLIdle
  /\ GLOff("off", "awaiting")
  /\ maxAttempts = DefaultMaxAttempts
  /\ scenePlan = NoPlan
  /\ RMOff("off")
  /\ fs = EmptyDisk
  /\ fsize = FullSizes(fs)
  /\ auPc = "start"
  /\ audioPath \in AudioArgs
  /\ \E v \in VideoDurations, a \in AudioDurations : media = MediaWith(v, audioPath, a)
  /\ mediaAtCall = media
  /\ clock = 1 /\ videoDur = NotMeasured /\ audioDur = NotMeasured
  /\ silentPart = NoPath /\ ffmpegRuns = <<>> /\ probes = 0 /\ auResult = NoPath
  /\ MGOff
  /\ HOff
  /\ COOff

NextAudio ==
  \/ \E vOk \in BOOLEAN, aOk \in BOOLEAN : AUMeasure(vOk, aOk)
  \/ \E now \in Nows, ok \in BOOLEAN : AUSilence(now, ok)
  \/ \E now \in Nows, ok \in BOOLEAN : AUTrim(now, ok)
  \/ \E now \in Nows, ok \in BOOLEAN : AUPadSilence(now, ok)
  \/ \E now \in Nows, ok \in BOOLEAN : AUPadConcat(now, ok)
  \/ AUKeep

SpecAudio == InitAudio /\ [][NextAudio]_vars

(***************************************************************************)
(* SpecMerge: one call of mergeVideoAndAudio or of one of its variants, on *)
(* a video path and an audio path that may name no file.                   *)
(***************************************************************************)
MergeVideoDurations == { NoFile, 300, 10000 }
MergeAudioDurations == { 7000, 10000, 12000 }
CloseCodes == { 0, 1 }

InitMerge ==
  /\ FLIdle
  /\ GLOff("off", "awaiting")
  /\ maxAttempts = DefaultMaxAttempts
  /\ scenePlan = NoPlan
  /\ RMOff("off")
  /\ fs = EmptyDisk
  /\ fsize = FullSizes(fs)
  /\ auPc = "off"
  /\ audioPath \in AudioArgs
  /\ \E v \in MergeVideoDurations, a \in MergeAudioDurations :
       media = MediaWith(v, audioPath, a)
  /\ mediaAtCall = media
  /\ clock = 1 /\ videoDur = NotMeasured /\ audioDur = NotMeasured
  /\ silentPart = NoPath /\ ffmpegRuns = <<>> /\ probes = 0 /\ auResult = NoPath
  /\ mgPc = "start" /\ mgVariant \in MergeVariants /\ mgVideo \in { NoPath, VideoIn }
  /\ mgDir = FALSE /\ mgOut = "absent" /\ mgSpawns = <<>> /\ mgPromise = "pending"
  /\ mgError = NoError /\ mgCode = NoExit
  /\ HOff
  /\ COOff

NextMerge ==
  \/ MCheckVideo
  \/ \E vOk \in BOOLEAN, aOk \in BOOLEAN : AUMeasure(vOk, aOk)
  \/ \E now \in Nows, ok \in BOOLEAN : AUSilence(now, ok)
  \/ \E now \in Nows, ok \in BOOLEAN : AUTrim(now, ok)
  \/ \E now \in Nows, ok \in BOOLEAN : AUPadSilence(now, ok)
  \/ \E now \in Nows, ok \in BOOLEAN : AUPadConcat(now, ok)
  \/ AUKeep
  \/ MReconciled
  \/ MReconcileRejected
  \/ MProbeError
  \/ MProbeClosed
  \/ MSpawnError
  \/ \E code \in CloseCodes \cup { SpawnFailedExit }, out \in OutStates : MClose(code, out)

SpecMerge == InitMerge /\ [][NextMerge]_vars

(***************************************************************************)
(* SpecRequest: one /generateVideo request, from its arrival to its        *)
(* response.  FairSpecRequest adds that the server keeps taking steps      *)
(* while one is possible: every await of the handler ends, by the          *)
(* timeouts of the HTTP clients and of runManim (line 688).                *)
(***************************************************************************)
PlanText == Obj1(SceneNameKey, Quoted(SceneText))
CodeText == Obj1(ManimCodeKey, Quoted(CodeA))
RequestContents ==
  { PlanText, CodeText, Obj1(ManimCodeKey, << "1" >>), << "o", "o", "p", "s" >>,
    << "n", "u", "l", "l" >> }

RequestBehaviours ==
  { b \in RenderBehaviours :
      /\ b.errors \in { NoText, ErrText }
      /\ b.wrote \in { "none", "full" }
      /\ b.lines = <<>>
      /\ b.code = 0 <=> b.errors = NoText }

RequestVideoDurations == { 10000 }
RequestAudioDurations == { 7000, 10000, 12000 }

InitRequest ==
  /\ FLIdle
  /\ GLOff("off", "received")
  /\ maxAttempts = DefaultMaxAttempts
  /\ scenePlan = NoPlan
  /\ RMOff("off")
  /\ fs = EmptyDisk
  /\ fsize = FullSizes(fs)
  /\ AUOff
  /\ MGOff
  /\ HOff
  /\ COOff

NextRequest ==
  \/ \E d \in BOOLEAN : HReceive(d)
  \/ \E c \in RequestContents : FLParsed(c)
  \/ \E c \in RequestContents : FLUnparsable(c)
  \/ FLThrew
  \/ FLRetry
  \/ FLGiveUp
  \/ HPlanned
  \/ GLStart
  \/ GLNoCode
  \/ GLWriteThrows
  \/ GLWriteAndSpawn
  \/ \E b \in RequestBehaviours : GLRenderSucceeded(b)
  \/ \E b \in RequestBehaviours : GLRenderFailed(b)
  \/ GLRenderCrashed
  \/ GLRetry
  \/ GLExhausted
  \/ HProceed
  \/ HNoVideo
  \/ HCaught
  \/ \E r \in TtsResponses, v \in RequestVideoDurations, a \in RequestAudioDurations :
       HTts(r, v, a)
  \/ MCheckVideo
  \* the voice file exists when the mux is called: no AUSilence
  \/ \E vOk \in BOOLEAN, aOk \in BOOLEAN : AUMeasure(vOk, aOk)
  \/ \E now \in Nows, ok \in BOOLEAN : AUTrim(now, ok)
  \/ \E now \in Nows, ok \in BOOLEAN : AUPadSilence(now, ok)
  \/ \E now \in Nows, ok \in BOOLEAN : AUPadConcat(now, ok)
  \/ AUKeep
  \/ MReconciled
  \/ MReconcileRejected
  \/ MSpawnError
  \/ \E code \in CloseCodes \cup { SpawnFailedExit }, out \in OutStates : MClose(code, out)
  \/ HMerged
  \/ HMergeFailed
  \/ \E ok \in BOOLEAN : HOp(ok)
  \/ \E o \in FeedbackOutcomes : HFeedback(o)

SpecRequest == InitRequest /\ [][NextRequest]_vars

FairSpecRequest == SpecRequest /\ WF_vars(NextRequest)

(***************************************************************************)
(* SpecShared: one call generateUntilNoManimErrors(scenePlan, maxAttempts) *)
(* while a second request with the same scene_name is in its own loop.     *)
(***************************************************************************)
SharedContents ==
  { Obj1(ManimCodeKey, Quoted(CodeA)), << "o", "o", "p", "s" >>,
    Obj1(ManimCodeKey, << "1" >>) }
SharedBehaviours ==
  { b \in RenderBehaviours :
      /\ b.errors \in { NoText, ErrText }
      /\ b.wrote \in { "none", "full" } }
OtherCodes == { CodeA, CodeB }

InitShared ==
  /\ FLIdle
  /\ GLOff("start", "awaiting")
  /\ maxAttempts \in 1..MaxAttemptsBound
  /\ scenePlan = InitialPlan(Scene)
  /\ RMOff("off")
  /\ fs = EmptyDisk
  /\ fsize = FullSizes(fs)
  /\ AUOff
  /\ MGOff
  /\ HOff
  /\ otherPc = "generating" /\ otherCode = NoText /\ loaded = Null
  /\ callerPlan = scenePlan

NextShared ==
  \/ GLStart
  \/ \E c \in SharedContents : FLParsed(c)
  \/ \E c \in SharedContents : FLUnparsable(c)
  \/ FLThrew
  \/ FLRetry
  \/ FLGiveUp
  \/ GLNoCode
  \/ GLWriteThrows
  \/ GLWriteAndSpawn
  \/ RendererLoads
  \/ \E b \in SharedBehaviours : GLRenderSucceeded(b)
  \/ \E b \in SharedBehaviours : GLRenderFailed(b)
  \/ GLRetry
  \/ GLExhausted
  \/ GLRenderCrashed
  \/ HProceed
  \/ HNoVideo
  \/ HCaught
  \/ \E code \in OtherCodes : OtherWrites(code)
  \/ \E b \in SharedBehaviours : OtherRendered(b)

SpecShared == InitShared /\ [][NextShared]_vars

(***************************************************************************)
(* FairSpecLoop: the call of Spec on fewer kinds of render, where          *)
(* every pending await ends: the model call resolves or rejects, the       *)
(* renderer closes (by itself or by the kill of line 691) or cannot be     *)
(* spawned, and the timers of lines 459 and 496 fire.                      *)
(***************************************************************************)
NextLoop ==
  \/ GLStart
  \/ \E c \in CodeContents : FLParsed(c)
  \/ \E c \in CodeContents : FLUnparsable(c)
  \/ FLThrew
  \/ FLRetry
  \/ FLGiveUp
  \/ GLNoCode
  \/ GLWriteThrows
  \/ GLWriteAndSpawn
  \/ \E b \in SharedBehaviours : GLRenderSucceeded(b)
  \/ \E b \in SharedBehaviours : GLRenderFailed(b)
  \/ GLRetry
  \/ GLExhausted
  \/ GLRenderCrashed
  \/ HProceed
  \/ HNoVideo
  \/ HCaught

FairSpecLoop == Init /\ [][NextLoop]_vars /\ WF_vars(NextLoop)

(***************************************************************************)
(* Properties of generateUntilNoManimErrors, checked under Spec.           *)
(***************************************************************************)
IsBlank(text) == \A i \in 1..Len(text) : text[i] \in {" ", "\n", "\t", "\r"}
FirstChars(text, n) == [i \in 1..(IF Len(text) < n THEN Len(text) ELSE n) |-> text[i]]

\* the latest render emitted blank stderr and a video was located
LastRenderClean ==
  lastRender.attempt > 0 /\ IsBlank(lastRender.errors) /\ lastRender.video /= Null

\* the string under manim_code of a returned manimCode object
ReturnedCode == GetProp(glResult.manimCode, ManimCodeKey).val.s

\* C1: the first attempt whose render has blank stderr and a located video
\* ends the loop: the function returns that attempt's code, output and
\* video path with attempts equal to the attempt's number, and no
\* generation call or render follows, even when attempts remain.
C1_SuccessEndsLoop ==
  LastRenderClean =>
    /\ pc = "returned"
    /\ glResult.attempts = lastRender.attempt
    /\ ReturnedCode = lastRender.code
    /\ glResult.videoPath = lastRender.video
    /\ glResult.errors = lastRender.errors
    /\ glResult.output = manimResult.output
    /\ attempt = lastRender.attempt
    /\ renders = lastRender.attempt
    /\ genStarts = lastRender.attempt
    /\ flPc = "done"

C1_Witness ==
  /\ LastRenderClean
  /\ pc = "returned"
  /\ lastRender.errors = BlankText
  /\ glResult.attempts = 2
  /\ maxAttempts = 3

\* C2: after a failed attempt k < maxAttempts, the scene plan handed to the
\* generation call of attempt k+1 carries previous_code = the source rendered
\* in attempt k and manim_error = the first 2000 characters of attempt k's
\* stderr; a success in attempt 2 after a failure in attempt 1 returns
\* attempts = 2.
C2_RepairContext ==
  /\ (pc = "generating" /\ attempt >= 2) =>
       /\ lastRender.attempt = attempt - 1
       /\ {"previous_code", "manim_error"} \subseteq genPlan.keys
       /\ genPlan.previous_code = lastRender.code
       /\ genPlan.manim_error = FirstChars(lastRender.errors, 2000)
       /\ (flCalls = 0 => flInput.plan = genPlan)
  /\ (pc = "returned" /\ LastRenderClean /\ renders = 2) => glResult.attempts = 2

C2_Witness ==
  /\ pc = "generating" /\ attempt = 2 /\ flCalls = 0
  /\ Len(lastRender.errors) > 2000
  /\ Len(genPlan.manim_error) = 2000

\* every attempt up to the cap rendered and none passed the success test
ExhaustedAfterRenders ==
  pc = "returned" /\ renders = maxAttempts /\ ~LastRenderClean

\* C3 as stated: with a generator that always yields code and a renderer
\* that never passes the success test, maxAttempts = 3 returns videoPath
\* null and attempts = 3.
C3_Original ==
  (ExhaustedAfterRenders /\ maxAttempts = 3) =>
    glResult.videoPath = Null /\ glResult.attempts = 3

\* C3 amended: in that case the function returns attempts = 3 and the video
\* path located by the last attempt, which is null only when the last
\* attempt located no video.
C3_ExhaustedReturn ==
  (ExhaustedAfterRenders /\ maxAttempts = 3) =>
    /\ glResult.attempts = 3
    /\ glResult.videoPath = lastRender.video
    /\ lastRender.attempt = 3

C3_Witness ==
  /\ ExhaustedAfterRenders /\ maxAttempts = 3
  /\ lastRender.video /= Null
  /\ ~IsBlank(lastRender.errors)

\* the result of the latest feedbackLoop is null or has no manim_code member
LacksCodeField(json) ==
  json.t = "null" \/ \A i \in 1..Len(json.m) : json.m[i].k /= ManimCodeKey

GenerationGaveNothing ==
  flPc = "done" /\ pc \notin {"off", "start", "generating"} /\ LacksCodeField(flResult)

NoCodeProducedText ==
  << "N", "o", " ", "c", "o", "d", "e", " ", "p", "r", "o", "d", "u", "c", "e", "d" >>

NoManimCodeText ==
  << "N", "o", " ", "m", "a", "n", "i", "m", "_", "c", "o", "d", "e" >>

\* what C4 says happens besides the wording of the error text
NoCodeStopsLoop ==
  /\ pc = "returned"
  /\ glResult.attempts = attempt
  /\ genStarts = attempt
  /\ writes = attempt - 1
  /\ renders = attempt - 1
  /\ "videoPath" \notin glResult.keys

\* C4 as stated: a generation step that yields no usable code object ends
\* the loop at once with the error text "No code produced", without writing
\* the scratch file, invoking the renderer or making a later attempt.
C4_Original ==
  GenerationGaveNothing => (NoCodeStopsLoop /\ glResult.errors = NoCodeProducedText)

\* C4 amended: as stated, but the error text reported is "No manim_code".
C4_NoCodeEndsLoop ==
  GenerationGaveNothing => (NoCodeStopsLoop /\ glResult.errors = NoManimCodeText)

C4_Witness ==
  /\ GenerationGaveNothing
  /\ GetProp(flResult, RawKey).has
  /\ attempt = 2 /\ maxAttempts = 3

(***************************************************************************)
(* Properties of feedbackLoop, checked under SpecFeedback.                 *)
(***************************************************************************)
\* C5: one call of feedbackLoop invokes produceFn at most maxRetries times,
\* whatever mix of parse failures and produceFn exceptions occurs.
C5_AtMostMaxRetriesCalls == flCalls <= flMax

C5_Witness ==
  /\ flPc = "done" /\ flCalls = flMax /\ flMax = 3
  /\ flOutcome = "threw" /\ flReceived

\* feedbackLoop ended without any response having parsed
GaveUp == flPc = "done" /\ flOutcome /= "parsed"

\* C6 as stated: when every response fails to parse, feedbackLoop returns
\* {raw: t} with t the text of the last response received, and never throws.
C6_Original == GaveUp => flResult = JObject(<< [k |-> RawKey, v |-> JString(flResponse)] >>)

\* C6 amended: t is the whitespace-trimmed text of the last response
\* received (the empty text when produceFn threw every time).
C6_RawFallback ==
  GaveUp =>
    /\ flResult = JObject(<< [k |-> RawKey, v |-> JString(Trim(flResponse))] >>)
    /\ flCalls = flMax
    /\ (~flReceived => flResponse = NoText)

C6_Witness ==
  /\ GaveUp /\ flMax = 3 /\ flOutcome = "threw" /\ flReceived
  /\ flResponse /= Trim(flResponse)

\* C7: as soon as a response parses, its parsed object is returned,
\* produceFn is not called again and no backoff wait follows.
C7_ParseReturnsAtOnce ==
  flOutcome = "parsed" =>
    /\ flPc = "done"
    /\ flResult = JSONParse(Stripped(Trim(flResponse))).val
    /\ flCalls = flAttempt
    /\ flWaits = flCalls - 1

C7_Witness ==
  /\ flOutcome = "parsed" /\ flCalls = 2 /\ flMax = 3
  /\ flResult.t = "object"

\* C8 as stated: for every response text that fails JSON parsing, the
\* corrective re-prompt contains the exact raw response text verbatim.
C8_Original ==
  flOutcome = "unparsable" => Includes(flInput.content, flResponse)

\* C8 amended: the corrective re-prompt contains the whitespace-trimmed
\* response text verbatim, as a contiguous substring.
C8_PromptQuotesTrimmed ==
  flOutcome = "unparsable" =>
    /\ Includes(flInput.content, Trim(flResponse))
    /\ flInput.keys = {"role", "content"}

C8_Witness ==
  /\ flOutcome = "unparsable" /\ flPc = "wait"
  /\ flResponse /= Trim(flResponse)
  /\ StartsWith(Trim(flResponse), Fence)
  /\ Len(Trim(flResponse)) > 6

\* a response has been received and handed to the parser
Received == flOutcome \in {"parsed", "unparsable"}

\* the markers of C9 as stated: the fence, optionally followed by json
StatedLeads == { Fence, Fence \o JsonTag }
\* the markers the pattern of line 481 matches: also one newline after them
PatternLeads == StatedLeads \cup { m \o << NL >> : m \in StatedLeads }

\* the longest of the markers that text starts with, or the empty text
LongestLead(text, markers) ==
  CHOOSE m \in markers \cup { <<>> } :
    /\ StartsWith(text, m)
    /\ \A n \in markers : StartsWith(text, n) => Len(n) <= Len(m)

\* text without its leading marker and without one trailing fence
WithoutFence(text, markers) ==
  LET rest == DropFirst(text, Len(LongestLead(text, markers)))
  IN IF EndsWith(rest, Fence) THEN DropLast(rest, 3) ELSE rest

\* a response that is valid JSON wrapped in a fence parses to the object
\* the unwrapped JSON parses to
FencedParsesAsBare ==
  \A b \in ValidBodies, l \in PatternLeads, t \in { Fence, << NL >> \o Fence } :
    (Received /\ Trim(flResponse) = l \o b \o t) =>
       /\ flOutcome = "parsed"
       /\ flResult = JSONParse(b).val

\* C9 as stated: the text handed to the parser is the response with one
\* leading fence marker (optionally tagged json) and one trailing fence
\* marker removed and nothing else removed; fenced valid JSON parses to the
\* same object as the unwrapped JSON.
C9_Original ==
  /\ Received => flStripped = WithoutFence(flResponse, StatedLeads)
  /\ FencedParsesAsBare

\* C9 amended: the text handed to the parser is the whitespace-trimmed
\* response with one leading fence marker (optionally tagged json and
\* optionally followed by one newline) and one trailing fence marker
\* removed; fenced valid JSON parses to the same object as the unwrapped
\* JSON.
C9_FenceStripping ==
  /\ Received => flStripped = WithoutFence(Trim(flResponse), PatternLeads)
  /\ FencedParsesAsBare

C9_Witness ==
  /\ flOutcome = "parsed"
  /\ flResponse /= Trim(flResponse)
  /\ StartsWith(Trim(flResponse), Fence \o JsonTag \o << NL >>)
  /\ EndsWith(Trim(flResponse), << NL >> \o Fence)
  /\ flResult = JSONParse(Obj1(<< "a" >>, Quoted(Fence))).val

(***************************************************************************)
(* Properties of runManim's video search, checked under SpecSearch.        *)
(***************************************************************************)
\* line i of stdout carries a ready marker and a quoted .mp4 path
ReadyAt(i) == output[i].mp4 /\ output[i].ready /\ output[i].quoted /= Null

\* line i is such a line and the file it quotes is on disk
ReadyExistingAt(i) == ReadyAt(i) /\ fs[output[i].quoted[1]] /= Absent

\* the last ready line of stdout quotes a file that is on disk
LastReadyExists ==
  \E i \in 1..Len(output) :
    ReadyExistingAt(i) /\ \A j \in (i + 1)..Len(output) : ~ReadyAt(j)

UnderDir(f, dir) == Len(dir) <= Len(f.dir) /\ \A i \in 1..Len(dir) : f.dir[i] = dir[i]

\* the files strategy 2 chooses from: the videos under the scene's folder
\* or, when there is none, the videos under the media root
Tier2Pool ==
  LET present == { f \in Files : fs[f] /= Absent }
      scoped == { f \in present : UnderDir(f, MediaRoot \o << Scene >>) }
  IN IF scoped /= {} THEN scoped ELSE { f \in present : UnderDir(f, MediaRoot) }

Tier2Hits == \E f \in Tier2Pool : fs[f] > 0

\* when a strategy runs, and which strategy's file is returned
TierOrder ==
  /\ 1 \in searchResult.tiers
  /\ (2 \in searchResult.tiers) <=> ~LastReadyExists
  /\ (3 \in searchResult.tiers) <=> (~LastReadyExists /\ ~Tier2Hits)
  /\ (~LastReadyExists /\ Tier2Hits) =>
       /\ searchResult.videoPath /= Null
       /\ searchResult.videoPath[1] \in Tier2Pool
       /\ \A f \in Tier2Pool : fs[f] <= fs[searchResult.videoPath[1]]

\* C10 as stated: if stdout has a ready line quoting an .mp4 path that
\* exists on disk, that path is returned even when newer .mp4 files exist
\* elsewhere; strategy 2 runs only when strategy 1 found no existing file,
\* strategy 3 only when strategy 2 found none either.
C10_Original ==
  rmPc = "closed" =>
    /\ \A i \in 1..Len(output) :
         ReadyExistingAt(i) => searchResult.videoPath = output[i].quoted
    /\ TierOrder

\* C10 amended: if the last ready line of stdout that quotes an .mp4 path
\* names a file that exists on disk, that path is returned even when newer
\* .mp4 files exist elsewhere; strategy 2 runs only when strategy 1 found
\* no existing file, strategy 3 only when strategy 2 found none either.
C10_TierPreference ==
  rmPc = "closed" =>
    /\ \A i \in 1..Len(output) :
         (ReadyExistingAt(i) /\ \A j \in (i + 1)..Len(output) : ~ReadyAt(j))
           => searchResult.videoPath = output[i].quoted
    /\ TierOrder

C10_Witness ==
  /\ rmPc = "closed"
  /\ output = << PlainLine, ReadyLine(FOutputs) >>
  /\ fs[FOutputs] = 1 /\ fs[FQuality] = 2 /\ fs[FOtherScene] = 2
  /\ searchResult.videoPath = Some(FOutputs)
  /\ searchResult.tiers = {1}

\* the videos on disk under the scene's own folder, and under the media root
SceneVideos == { f \in Files : fs[f] /= Absent /\ UnderDir(f, MediaRoot \o << Scene >>) }
MediaVideos == { f \in Files : fs[f] /= Absent /\ UnderDir(f, MediaRoot) }

\* strategy 2 ran and returned a file (strategy 3 did not run)
Tier2Returned ==
  /\ rmPc = "closed"
  /\ searchResult.tiers = {1, 2}
  /\ searchResult.videoPath /= Null

\* C11 as stated: strategy 2 only ever returns a file under
\* {mediaRoot}/{scene}/; when no .mp4 exists under the scene's own folder,
\* strategy 2 has no hit and the search falls through to strategy 3.
C11_Original ==
  /\ Tier2Returned => searchResult.videoPath[1] \in SceneVideos
  /\ (rmPc = "closed" /\ 2 \in searchResult.tiers /\ SceneVideos = {})
       => 3 \in searchResult.tiers

\* C11 amended: strategy 2 returns a file under {mediaRoot}/{scene}/ whenever
\* an .mp4 exists under the scene's own folder; when none exists there it
\* chooses among all .mp4 files under the media root, whatever scene they
\* belong to, and the search falls through to strategy 3 only when the files
\* it chose among include none with a modification time above zero.
C11_Tier2Scope ==
  /\ Tier2Returned =>
       /\ searchResult.videoPath[1] \in
            (IF SceneVideos /= {} THEN SceneVideos ELSE MediaVideos)
       /\ fs[searchResult.videoPath[1]] > 0
  /\ (rmPc = "closed" /\ 2 \in searchResult.tiers) =>
       ((3 \in searchResult.tiers) <=>
          \A f \in (IF SceneVideos /= {} THEN SceneVideos ELSE MediaVideos) : fs[f] = 0)

\* strategy 2 returned another scene's video although a newer video lies
\* elsewhere in the workspace
C11_Witness ==
  /\ Tier2Returned
  /\ SceneVideos = {}
  /\ fs[FOtherScene] = 1 /\ fs[FOutputs] = 2
  /\ searchResult.videoPath = Some(FOtherScene)

(***************************************************************************)
(* Properties of runManim's process handling, checked under SpecSearch.    *)
(***************************************************************************)
\* the repair loop's success test (lines 430-433) on the resolved result:
\* blank stderr and a located video
PassesLoopTest ==
  /\ IsBlank(searchResult.errors)
  /\ searchResult.videoPath /= Null

\* C12 as stated: when the timeout elapses before the renderer exits,
\* runManim kills it and the RenderResult it then returns has videoPath
\* null, so the repair loop treats the timed-out attempt as a failure.
C12_Original ==
  (rmPc = "closed" /\ timedOut) =>
    /\ exitCode = KilledExit
    /\ searchResult.videoPath = Null
    /\ ~PassesLoopTest

\* a renderer killed by the timer, silent on both streams, with the scene's
\* video of an earlier run on disk: the result carries that video and
\* passes the loop's success test
C12_Witness ==
  /\ rmPc = "closed" /\ timedOut /\ exitCode = KilledExit
  /\ output = <<>> /\ errors = NoText
  /\ fs[FQuality] = 1
  /\ searchResult.videoPath = Some(FQuality)
  /\ PassesLoopTest

\* C13 as stated: when the child emits 'error' instead of running, the
\* runManim promise is rejected; it neither resolves nor stays pending.
C13_Original == childError => PromiseState = "rejected"

\* the child could not be spawned: the promise is unsettled and the server
\* process has ended on the unhandled event
C13_Witness == childError /\ PromiseState = "pending" /\ rmPc = "crashed"

C15_Original ==
  handler = "narration" =>
    /\ glResult.videoPath /= Null
    /\ fs[glResult.videoPath[1]] /= Absent
    /\ fsize[glResult.videoPath[1]] > 0

\* the renderer left the scene's video empty and printed nothing on stderr:
\* the loop returned its path and the handler went on to narration
C15_Witness ==
  /\ handler = "narration"
  /\ glResult.videoPath = Some(FQuality)
  /\ fs[FQuality] /= Absent
  /\ fsize[FQuality] = 0

(***************************************************************************)
(* Properties of padOrTrimAudioToMatch, checked under SpecAudio.           *)
(***************************************************************************)
\* the audio path was given and named a file when the function was called
AudioExisted == audioPath /= NoPath /\ mediaAtCall[audioPath] /= NoFile

Measured == videoDur /= NotMeasured /\ audioDur /= NotMeasured

\* a and b differ by at most d
Within(a, b, d) == a - b <= d /\ b - a <= d

\* the function returned a file that was not there when it was called
ReturnedNewFile ==
  /\ auPc = "returned"
  /\ auResult.dir = "scratch"
  /\ mediaAtCall[auResult] = NoFile
  /\ media[auResult] /= NoFile

\* C16: when the audio file exists and the measured durations differ by at
\* most 0.05 s, the original audio path is returned, no file is created and
\* no ffmpeg process is spawned, only the two duration probes.
C16_WithinToleranceKeeps ==
  (AudioExisted /\ Measured /\ Within(audioDur, videoDur, 50)) =>
    /\ ffmpegRuns = <<>>
    /\ media = mediaAtCall
    /\ probes = 2
    /\ auPc \in { "measured", "returned" }
    /\ auPc = "returned" => auResult = audioPath

C16_Witness ==
  /\ auPc = "returned"
  /\ audioPath = VoiceFile
  /\ videoDur = 10000 /\ audioDur = 10050
  /\ auResult = VoiceFile
  /\ ffmpegRuns = <<>>

\* C17: for every existing audio whose measured duration exceeds the
\* video's by more than 0.05 s, the returned audio is a new file cut to the
\* video's measured duration, to the hundredth of a second (so within
\* +/-0.1 s of it).
C17_TrimToVideo ==
  (auPc = "returned" /\ AudioExisted /\ Measured /\ audioDur > videoDur + 50) =>
    /\ ReturnedNewFile
    /\ Len(ffmpegRuns) = 1
    /\ ffmpegRuns[1].inputs = << audioPath >>
    /\ Within(media[auResult], videoDur, 5)
    /\ Within(media[auResult], videoDur, 100)

C17_Witness ==
  /\ auPc = "returned"
  /\ audioPath = VoiceFile
  /\ videoDur = 10006 /\ audioDur = 12000
  /\ auResult.prefix = "audio_trim"
  /\ media[auResult] = 10010

\* the call took the padding branch and returned
Padded ==
  auPc = "returned" /\ AudioExisted /\ Measured /\ audioDur < videoDur - 50

\* C18 as stated: for every existing audio shorter than the video by more
\* than 0.05 s, the returned audio's duration equals the video's duration
\* within +/-0.1 s, whatever the deficit.
C18_Original == Padded => Within(media[auResult], videoDur, 100)

\* C18 amended: the returned audio is the original audio followed by
\* silence of length max(0.5 s, measured deficit), to the hundredth; its
\* duration equals the video's within +/-0.1 s when the deficit is at least
\* 0.5 s and the audio's duration was measured as it is, and exceeds the
\* video's by 0.5 s minus the deficit when the deficit is below 0.5 s.
C18_PadBySilence ==
  Padded =>
    /\ ReturnedNewFile
    /\ Within(media[auResult] - mediaAtCall[audioPath],
              Max(500, videoDur - audioDur), 5)
    /\ (audioDur = mediaAtCall[audioPath] /\ videoDur - audioDur >= 500)
         => Within(media[auResult], videoDur, 100)
    /\ (audioDur = mediaAtCall[audioPath] /\ videoDur - audioDur < 500)
         => Within(media[auResult] - videoDur, 500 - (videoDur - audioDur), 5)

\* a deficit of 0.3 s: the result is 0.2 s longer than the video
C18_Witness ==
  /\ Padded
  /\ videoDur = 10000 /\ audioDur = 9700
  /\ media[auResult] = 10200

\* the call took the branch of the missing audio and returned
Silenced == auPc = "returned" /\ ~AudioExisted

\* C19 as stated: when the audio path is null/empty or names no file, the
\* result is a newly created silent file whose requested duration is
\* max(0.5 s, the video's measured duration).
C19_Original ==
  Silenced =>
    /\ ReturnedNewFile
    /\ Len(ffmpegRuns) = 1
    /\ Within(FromFixed2(ffmpegRuns[1].limit), Max(500, videoDur), 5)

\* C19 amended: the requested duration is max(0.5 s, the video's measured
\* duration), except that a measured duration of 0 (which is also what a
\* failed measurement gives) requests 1 s.
C19_SilenceForMissingAudio ==
  Silenced =>
    /\ ReturnedNewFile
    /\ auResult.prefix = "silent"
    /\ Len(ffmpegRuns) = 1
    /\ ffmpegRuns[1].inputs = <<>>
    /\ media[auResult] = FromFixed2(ffmpegRuns[1].limit)
    /\ IF videoDur = 0
       THEN FromFixed2(ffmpegRuns[1].limit) = 1000
       ELSE Within(FromFixed2(ffmpegRuns[1].limit), Max(500, videoDur), 5)

C19_Witness ==
  /\ Silenced
  /\ audioPath = MissingVoice
  /\ videoDur = 0
  /\ ffmpegRuns[1].limit = 100

\* C20: every file reconciliation produces is written under a new
\* timestamp-qualified name inside the scratch directory; the input video
\* and the input audio are never written, overwritten or deleted; in the
\* padding case the original audio is the first input of the concatenation
\* and the silence the second.
C20_OriginalsUntouched ==
  /\ \A i \in 1..Len(ffmpegRuns) :
       /\ ffmpegRuns[i].out.dir = "scratch"
       /\ ffmpegRuns[i].out.stamp \in 1..clock
       /\ mediaAtCall[ffmpegRuns[i].out] = NoFile
       /\ ffmpegRuns[i].out /= VideoIn
       /\ ffmpegRuns[i].out /= audioPath
       /\ \A j \in 1..Len(ffmpegRuns) : i /= j => ffmpegRuns[i].out /= ffmpegRuns[j].out
  /\ \A p \in Paths :
       media[p] /= mediaAtCall[p] =>
         \E i \in 1..Len(ffmpegRuns) : ffmpegRuns[i].out = p
  /\ media[VideoIn] = mediaAtCall[VideoIn]
  /\ audioPath /= NoPath => media[audioPath] = mediaAtCall[audioPath]
  /\ \A i \in 1..Len(ffmpegRuns) :
       ffmpegRuns[i].out.prefix = "audio_padded" =>
         /\ Len(ffmpegRuns[i].inputs) = 2
         /\ ffmpegRuns[i].inputs[1] = audioPath
         /\ ffmpegRuns[i].inputs[2] = silentPart
         /\ silentPart.prefix = "pad_silent"

\* padding of an audio that itself lies in the scratch directory, both new
\* names stamped in the same millisecond
C20_Witness ==
  /\ auPc = "returned"
  /\ audioPath = Leftover
  /\ Len(ffmpegRuns) = 2
  /\ ffmpegRuns[1].out.stamp = ffmpegRuns[2].out.stamp
  /\ auResult = ffmpegRuns[2].out
  /\ ffmpegRuns[2].inputs = << Leftover, ffmpegRuns[1].out >>

(***************************************************************************)
(* Properties of mergeVideoAndAudio and its variants, checked under        *)
(* SpecMerge.                                                              *)
(***************************************************************************)
\* the video path handed to the call is empty or names no file
VideoAbsentAtCall == mgVideo = NoPath \/ mediaAtCall[mgVideo] = NoFile

\* nothing was spawned and nothing was created
NothingStarted ==
  /\ mgSpawns = <<>> /\ probes = 0 /\ ffmpegRuns = <<>>
  /\ ~mgDir /\ mgOut = "absent" /\ media = mediaAtCall

\* C21: mergeVideoAndAudio called with a video path that is empty or names
\* no file rejects with an error naming that path, before any subprocess
\* (duration probe, silence generation, transcoder) is spawned and before
\* any directory or file is created.
C21_MissingVideoRejects ==
  (mgVariant = "plain" /\ mgPc /= "start" /\ VideoAbsentAtCall) =>
     /\ mgPromise = "rejected"
     /\ mgError.kind = "Video file not found"
     /\ mgError.path = mgVideo
     /\ NothingStarted

\* the call was made on a path that names no file, and has rejected
C21_Witness ==
  /\ mgVariant = "plain" /\ mgPc = "threw"
  /\ mgVideo = VideoIn /\ media[VideoIn] = NoFile
  /\ mgError.path = VideoIn

\* the call was made on a video that exists and an audio path that names no file
AudioFileAbsentAtCall ==
  /\ mgVariant = "plain" /\ mgPc /= "start"
  /\ ~VideoAbsentAtCall
  /\ audioPath /= NoPath /\ mediaAtCall[audioPath] = NoFile

\* C22 as stated: when the video exists but the audio path names no file,
\* the merge signals a missing-input failure and spawns no subprocess.
C22_Original ==
  AudioFileAbsentAtCall =>
     /\ mgPromise /= "resolved"
     /\ mgSpawns = <<>> /\ probes = 0 /\ ffmpegRuns = <<>>

\* C22, amended: when the video exists but the audio path names no file,
\* no missing-input failure is signalled.  The merge probes the video,
\* generates a silent track of at least half a second, hands that track to
\* the transcoder as its audio input, and rejects only when the silence
\* generation or the transcoder fails.
C22_MissingAudioSilenced ==
  AudioFileAbsentAtCall =>
     /\ mgError.kind /= "Video file not found"
     /\ mgDir
     /\ mgSpawns /= <<>> =>
          /\ mgSpawns[1] = Spawned("ffmpeg", << mgVideo, auResult >>)
          /\ auResult.prefix = "silent"
          /\ media[auResult] >= MinSilenceMs
          /\ probes = 1 /\ Len(ffmpegRuns) = 1
     /\ mgPromise = "rejected" =>
          \/ auPc = "rejected"
          \/ mgPc \in { "spawnFailed", "closed" }

\* a merge of a video with an audio path naming no file resolved
C22_Witness ==
  /\ AudioFileAbsentAtCall
  /\ mgPromise = "resolved"
  /\ mgSpawns /= <<>> /\ auResult.prefix = "silent"

\* the transcoder exited with code 0 and left a non-empty output file
CleanOutput == mgCode = 0 /\ mgOut = "written"

\* the outcome of the transcoder is known: it closed, or could not be spawned
TranscoderEnded == mgPc \in { "closed", "spawnFailed" }

PlainOutcome ==
  mgVariant = "plain" =>
     /\ mgPromise = "resolved" => mgPc = "closed" /\ CleanOutput
     /\ (TranscoderEnded /\ ~CleanOutput) =>
          mgPromise = "rejected" /\ mgError.kind /= "none"
     /\ mgPc = "spawnFailed" => mgError.kind = "Failed to start ffmpeg"
     /\ mgPc = "closed" => mgPromise /= "pending"

SettledForGood ==
  mgPromise /= "pending" => mgPromise' = mgPromise /\ mgError' = mgError

\* C23: mergeVideoAndAudio resolves only when the transcoder exited with
\* code 0 and the output file exists and its size is > 0; on a non-zero
\* exit, a missing output, a zero-size output or a spawn error it rejects
\* with an error carrying diagnostic text; once settled, the promise keeps
\* its outcome.
C23_ResolvesOnCleanOutputOnly == [](PlainOutcome) /\ [][SettledForGood]_vars

\* the transcoder exited with 0 and left an empty file: the call rejected
C23_Witness ==
  /\ mgVariant = "plain" /\ mgPc = "closed"
  /\ mgCode = 0 /\ mgOut = "empty"
  /\ mgPromise = "rejected"
  /\ mgError.kind = "Output file created but has zero size"

\* C24 as stated: the volume, fade and custom-filter variants resolve only
\* when the exit code is 0 and the output file exists and its size is > 0,
\* and reject, never hang, when the transcoder cannot be spawned.
C24_Original ==
  mgVariant /= "plain" =>
     /\ mgPromise = "resolved" => CleanOutput
     /\ mgPc /= "crashed"

\* a variant resolved on an empty output file
C24_Witness ==
  /\ mgVariant /= "plain" /\ mgPromise = "resolved"
  /\ mgCode = 0 /\ mgOut = "empty"

\* a variant whose transcoder could not be spawned: the process ended and
\* the promise was never settled
C24_WitnessCrash ==
  mgVariant /= "plain" /\ mgPc = "crashed" /\ mgPromise = "pending"

(***************************************************************************)
(* Properties of the /generateVideo handler, checked under SpecRequest.    *)
(***************************************************************************)
\* renders spawned and not yet completed
RendersAlive == renders - lastRender.attempt

\* a language-model call of feedbackLoop is in progress
GenerationRunning == flPc \in { "call", "wait" }

StagesInOrder ==
  /\ handler \in { "received", "planning" } =>
       pc = "off" /\ genStarts = 0 /\ renders = 0
  /\ GenerationRunning => handler = "planning" \/ pc = "generating"
  /\ RendersAlive \in { 0, 1 }
  /\ RendersAlive = 1 => pc \in { "rendering", "crashed" }
  /\ ttsCalls > 0 => pc = "returned" /\ glResult.videoPath /= Null
  /\ muxCalls > 0 => ttsCalls = 1 /\ ttsResponse.status = 200
  /\ mgSpawns /= <<>> => auPc = "returned"

StagesStartInOrder ==
  /\ genStarts' > genStarts =>
       /\ handler = "awaiting" /\ ~GenerationRunning
       /\ RendersAlive = 0
       /\ genStarts > 0 => lastRender.attempt = attempt
  /\ renders' > renders => RendersAlive = 0 /\ ~GenerationRunning'
  /\ ttsCalls' > ttsCalls => RendersAlive = 0 /\ ~GenerationRunning
  /\ mgSpawns' /= mgSpawns => auPc = "returned"

\* C25: within one request the stages never overlap: planning ends before
\* the first code-generation call starts; the render of attempt k has
\* completed before the generation call of attempt k+1 starts and at most
\* one render is alive; narration synthesis starts only after a video path
\* was returned; reconciliation ends before the mux transcoder is spawned.
C25_StagesSequential == [](StagesInOrder) /\ [][StagesStartInOrder]_vars

\* a request that was answered with success after a second attempt
C25_Witness ==
  /\ handler = "succeeded" /\ attempt >= 2 /\ renders >= 2
  /\ ttsCalls = 1 /\ mgSpawns /= <<>>

\* the planning call returned a value without a scene name
PlanLacksSceneName == ~GetProp(flResult, SceneNameKey).has

\* the planning call returned the degraded object { raw }
PlanIsRaw == GetProp(flResult, RawKey).has

\* the handler leaves the planning stage on a plan without a scene name
LeavesPlanningWithoutName ==
  handler = "planning" /\ handler' /= "planning" /\ PlanLacksSceneName

NothingAfterPlanning ==
  /\ pc = "off" /\ genStarts = 0 /\ writes = 0 /\ renders = 0
  /\ ttsCalls = 0 /\ muxCalls = 0 /\ mgPc = "off" /\ auPc = "off"

HardStop ==
  LeavesPlanningWithoutName =>
     /\ handler' = "caught"
     /\ Len(responses') = 1 /\ responses'[1].status = 500
     /\ responses'[1].message = "Failed to generate video"

StoppedForGood ==
  (handler = "caught" /\ genStarts = 0) =>
     /\ NothingAfterPlanning
     /\ Len(responses) = 1 /\ responses[1].status = 500

\* C26: when the planning call returns the degraded { raw } object or an
\* object without a scene name, the request stops there: no code
\* generation, render, narration synthesis or mux is started, and the
\* caller receives a failure response.
C26_PlanFailureStops ==
  /\ [][HardStop]_vars
  /\ [](StoppedForGood)
  /\ [][handler = "caught" => handler' = "caught" /\ responses' = responses]_vars

\* planning gave up with { raw } and the request was answered with a failure
C26_Witness ==
  /\ handler = "caught" /\ PlanIsRaw /\ flCalls = DefaultMaxRetries
  /\ NothingAfterPlanning
  /\ Len(responses) = 1 /\ responses[1].status = 500

\* the request has been answered
Responded == Len(responses) >= 1

\* C27 as stated: every request eventually receives exactly one response,
\* on every path, renderer spawn failure included.
C27_Original == <>Responded /\ [](Len(responses) <= 1)

\* the server process ended before the request was answered
C27_Witness == handler = "crashed" /\ responses = <<>>

\* short of the uncaught 'error' event the request is answered, once
AnsweredUnlessCrashed ==
  <>(Responded \/ handler = "crashed") /\ [](Len(responses) <= 1)

\* the failure response after a loop without video carries the loop's
\* errors and attempts
NoVideoResponseCarriesErrors ==
  handler = "noVideo" =>
     /\ responses = << NoVideoResponse(glResult) >>
     /\ responses[1].details = glResult.errors
     /\ responses[1].attempts = attempt

\* the narration call was answered with a non-200 status or an empty body
TtsFailed == ttsCalls > 0 /\ (ttsResponse.status /= 200 \/ ttsResponse.bytes = 0)

\* the transcoder of the mux exited with a code other than 0
MuxExitedNonZero == mgCode /= NoExit /\ mgCode /= 0

\* the request was answered once, with a failure
FailureResponse ==
  /\ Len(responses) = 1 /\ responses[1].status = 500
  /\ responses[1].message = "Failed to generate video"
  /\ responses[1].details /= NoText

TranscoderSpawns == Len(SelectSeq(mgSpawns, LAMBDA p : p.cmd = "ffmpeg"))

\* C28: a failure of the text-to-speech call (a non-200 status or an empty
\* body) or of the mux transcoder (a non-zero exit) reaches the handler as
\* a rejection and is not retried: the narration call and the mux are each
\* made at most once per request, and a failed one yields a failure response.
C28_NoRetryOfTtsAndMux ==
  /\ ttsCalls <= 1 /\ muxCalls <= 1 /\ TranscoderSpawns <= 1
  /\ TtsFailed => handler = "caught" /\ FailureResponse /\ muxCalls = 0
  /\ MuxExitedNonZero =>
       /\ mgPromise = "rejected"
       /\ handler \in { "merging", "caught" }
       /\ handler = "caught" => FailureResponse

\* the service answered 200 with an empty body: one call, a failure response
C28_Witness ==
  /\ ttsCalls = 1 /\ ttsResponse = [status |-> 200, bytes |-> 0]
  /\ handler = "caught" /\ FailureResponse /\ muxCalls = 0

\* the mux transcoder exited with 1: one mux, a failure response
C28_WitnessMux ==
  /\ muxCalls = 1 /\ mgCode = 1 /\ handler = "caught" /\ FailureResponse

RepairFields == { "previous_code", "manim_error" }

\* the latest completed render left an error text or no video
LastRenderFailed ==
  /\ lastRender.attempt >= 1
  /\ ~IsBlank(lastRender.errors) \/ lastRender.video = Null

RepairFieldsBounded ==
  /\ Len(scenePlan.manim_error) <= 2000
  /\ Len(genPlan.manim_error) <= 2000
  /\ (genStarts >= 1 /\ attempt = 1) => genPlan.keys \cap RepairFields = {}
  /\ genPlan.keys \cap RepairFields /= {} => attempt >= 2
  /\ scenePlan.keys \cap RepairFields /= {} => lastRender.attempt >= 1

RepairFieldsFollowFailure ==
  (genStarts' > genStarts /\ genPlan'.keys \cap RepairFields /= {}) =>
     /\ RepairFields \subseteq genPlan'.keys
     /\ lastRender.attempt = attempt
     /\ LastRenderFailed

\* C30: in every state of the repair loop the scene plan's manim_error has
\* at most 2000 characters; previous_code and manim_error are absent from
\* the plan given to the generation call of attempt 1, and present only in
\* generation calls that follow a failed render.
C30_RepairFieldsOnlyWhenRepairing ==
  [](RepairFieldsBounded) /\ [][RepairFieldsFollowFailure]_vars

\* the third generation call, after two failed renders with long stderr
C30_Witness ==
  /\ pc = "generating" /\ attempt = 3 /\ lastRender.attempt = 2
  /\ RepairFields \subseteq genPlan.keys
  /\ Len(lastRender.errors) > 2000 /\ Len(scenePlan.manim_error) = 2000

(***************************************************************************)
(* generateManimCode (index.js 554-640): the user message built from the   *)
(* input.  fields is the set of input properties whose values the message  *)
(* text carries (JSON.stringify leaves out the undefined ones).            *)
(***************************************************************************)
CreateFields == {"scene_name", "objects", "actions", "captions"}

\* line 607: scenePlanJSON.manim_error && scenePlanJSON.previous_code
IsRepairRequest(input) ==
  /\ "manim_error" \in input.keys /\ input.plan.manim_error /= NoText
  /\ "previous_code" \in input.keys /\ input.plan.previous_code /= NoText

\* lines 607-633: "Fix this Manim code" with error and code, or "Create
\* Manim CE code for this scene" with scene_name, objects, actions, captions
UserMessage(input) ==
  IF IsRepairRequest(input)
  THEN [kind |-> "fix", error |-> input.plan.manim_error,
        code |-> input.plan.previous_code, fields |-> {}]
  ELSE [kind |-> "create", error |-> NoText, code |-> NoText,
        fields |-> input.keys \cap CreateFields]

\* the first model call of a generation step that follows a failed render
\* is in flight
FirstCallAfterFailure ==
  pc = "generating" /\ attempt >= 2 /\ flPc = "call" /\ flCalls = 0

\* C31: after every failed render that is followed by another attempt,
\* whether it failed by non-empty stderr or by a missing video with empty
\* stderr, the next request to the model is the corrective prompt, holding
\* the previous attempt's code and the observed error text.
C31_Original ==
  FirstCallAfterFailure =>
    /\ UserMessage(flInput).kind = "fix"
    /\ UserMessage(flInput).code = lastRender.code
    /\ UserMessage(flInput).error = FirstChars(lastRender.errors, ErrorSliceLen)

\* the failure was a missing video with empty stderr and the next request
\* is the plain creation prompt
C31_Witness ==
  /\ FirstCallAfterFailure
  /\ lastRender.errors = NoText /\ lastRender.video = Null
  /\ UserMessage(flInput).kind = "create"
  /\ UserMessage(flInput).fields = CreateFields

\* what does hold: the corrective prompt is sent exactly when the failed
\* render left any stderr text, blank or not
C31_RepairWhenStderr ==
  FirstCallAfterFailure =>
    /\ UserMessage(flInput).kind = "fix" <=> lastRender.errors /= NoText
    /\ lastRender.errors /= NoText =>
         /\ UserMessage(flInput).code = lastRender.code
         /\ UserMessage(flInput).error = FirstChars(lastRender.errors, ErrorSliceLen)

(***************************************************************************)
(* Properties of the shared scratch file, checked under SpecShared.        *)
(***************************************************************************)
\* the code this request generated in the current attempt
OwnCode == ManimCodeOf(manimCodeJSON).s

\* the loop returned through lines 438-445
ReturnedSuccess == pc = "returned" /\ "filePath" \in glResult.keys

\* C32: with a second request on the same scene identifier and no lock,
\* the scratch file this request wrote can be replaced by the second
\* request's code before this request's renderer reads it: the renderer
\* runs what the file held when it read it, whoever wrote it, so a
\* SUCCESS can return a video that was not rendered from the code it
\* returns (C32_Witness); any such video was rendered from the second
\* request's code.
C32_ScratchFileShared ==
  /\ (pc = "rendering" /\ scriptFile /= OwnCode) =>
       (otherPc /= "generating" /\ scriptFile = otherCode)
  /\ (pc \in {"backoff", "returned"} /\ lastRender.attempt = attempt /\ loaded /= Null) =>
       lastRender.code = loaded[1]
  /\ (ReturnedSuccess /\ lastRender.code /= ReturnedCode) =>
       (otherPc /= "generating" /\ lastRender.code = otherCode)

\* this request returns SUCCESS with its own code A and a video, and the
\* render ran on the second request's code B
C32_Witness ==
  /\ ReturnedSuccess
  /\ glResult.videoPath = Some(FQuality)
  /\ ReturnedCode = CodeA
  /\ lastRender.code = CodeB
  /\ otherCode = CodeB

\* the call of generateUntilNoManimErrors is over: it returned, its promise
\* was rejected (line 418), or the server process ended under its render
LoopEnded == pc \in {"returned", "threw", "crashed"}

\* C33: generateUntilNoManimErrors ends once every model call and every
\* render has ended; for maxAttempts = n it renders at most n times,
\* writes the scratch file at most n times and starts at most n
\* feedbackLoop calls of at most 3 model calls each (3n model calls in
\* all); the returned attempts lies in 1..n and is the number of
\* generation steps started.
C33_BoundedWork ==
  /\ [](/\ renders <= maxAttempts
        /\ writes <= maxAttempts
        /\ genStarts <= maxAttempts
        /\ flCalls <= DefaultMaxRetries
        /\ flWaits <= flCalls
        /\ renders <= writes /\ writes <= genStarts
        /\ (pc = "returned" =>
              /\ glResult.attempts \in 1..maxAttempts
              /\ glResult.attempts = genStarts))
  /\ <>LoopEnded

\* the most work a call with maxAttempts = 3 does in its last step
C33_Witness ==
  /\ pc = "returned" /\ maxAttempts = 3
  /\ renders = 3 /\ writes = 3 /\ genStarts = 3 /\ flCalls = 3
  /\ glResult.attempts = 3

(***************************************************************************)
(* More properties of generateUntilNoManimErrors, checked under Spec.      *)
(***************************************************************************)
\* runManim resolved and the loop took its decision in this step
RenderDecided == pc = "rendering" /\ pc' \in {"returned", "backoff"}

\* C34: the loop's SUCCESS/RETRY decision and everything it keeps of a
\* render are functions of the render's stderr text, stdout and videoPath
\* alone: neither the exit code nor the success flag derived from it
\* enters, so two runs that differ in the exit code only take the same
\* transitions and return the same result.
C34_ExitCodeNotConsulted ==
  [][RenderDecided =>
       /\ (pc' = "returned") <=>
            (IsBlank(manimResult'.errors) /\ manimResult'.videoPath /= Null)
       /\ pc' = "returned" =>
            /\ glResult'.keys =
                 {"manimCode", "output", "errors", "filePath", "videoPath", "attempts"}
            /\ glResult'.manimCode = manimCodeJSON
            /\ glResult'.output = manimResult'.output
            /\ glResult'.errors = manimResult'.errors
            /\ glResult'.videoPath = manimResult'.videoPath
            /\ glResult'.attempts = attempt
            /\ scenePlan' = scenePlan
       /\ pc' = "backoff" =>
            /\ glResult' = glResult
            /\ scenePlan'.previous_code = OwnCode
            /\ scenePlan'.manim_error = FirstChars(manimResult'.errors, ErrorSliceLen)
            /\ scenePlan'.manim_video_missing = (manimResult'.videoPath = Null)
       /\ UNCHANGED << attempt, maxAttempts, manimCodeJSON, scriptFile, writes,
                       renders, genStarts >>]_vars

\* a renderer that exited with a non-zero code, blank stderr and a located
\* video was taken as SUCCESS
C34_Witness ==
  /\ ReturnedSuccess
  /\ ~manimResult.success
  /\ manimResult.videoPath /= Null
  /\ glResult.videoPath = manimResult.videoPath

(***************************************************************************)
(* The inputs of the model calls, checked under SpecRequest.               *)
(***************************************************************************)
\* lines 505-509 of generateScenePlan: the input properties its prompt is
\* filled from
ScenePlanFields(input) == input.keys \cap {"description", "language"}

TaskFields ==
  {"description", "language", "scene_name", "objects", "actions", "captions",
   "previous_code", "manim_error"}

\* an attempt of the running feedbackLoop call has failed and the loop
\* goes on
AfterFailedAttempt == flPc \in {"call", "wait"} /\ flCalls >= 1

\* C35: in feedbackLoop, once an attempt has failed, the input of every
\* later generateFn call of that invocation holds role and content only:
\* no field of the initial input is left, so the messages generateScenePlan
\* and generateManimCode build on a retry carry none of the task's data.
C35_RetryInputLosesTask ==
  AfterFailedAttempt =>
    /\ flInput.keys = {"role", "content"}
    /\ flInput.role = "user"
    /\ flInput.keys \cap TaskFields = {}
    /\ ScenePlanFields(flInput) = {}
    /\ UserMessage(flInput).kind = "create"
    /\ UserMessage(flInput).fields = {}

\* the retry inside a repair step: the plan handed in held the previous
\* code and the error, the call in flight has neither
C35_Witness ==
  /\ AfterFailedAttempt /\ flPc = "call"
  /\ pc = "generating" /\ attempt = 2
  /\ UserMessage(PlanInput(genPlan)).kind = "fix"
  /\ UserMessage(flInput).kind = "create"

(***************************************************************************)
(* The scene plan across attempts, checked under FairSpecLoop.             *)
(***************************************************************************)
\* the plan q holds what the plan p held under the caller's five fields
SameTask(p, q) ==
  /\ q.scene_name = p.scene_name
  /\ q.objects = p.objects
  /\ q.actions = p.actions
  /\ q.narration = p.narration
  /\ q.captions = p.captions
  /\ q.keys \ RepairKeys = p.keys \ RepairKeys

\* C36: across all attempts the loop's scene plan keeps the caller's
\* scene_name, objects, actions, narration and captions (previous_code,
\* manim_error and manim_video_missing alone are added or overwritten), so
\* the scratch file and the renderer's scene identifier are the same in
\* every attempt; and the caller's own plan object is never written.
C36_PlanFrame ==
  /\ [](/\ SameTask(callerPlan, scenePlan)
        /\ (genStarts >= 1 => SameTask(callerPlan, genPlan))
        /\ (ReturnedSuccess => glResult.filePath = callerPlan.scene_name)
        /\ callerPlan.keys \cap RepairKeys = {}
        /\ callerPlan.previous_code = NoText
        /\ callerPlan.manim_error = NoText)
  /\ [][callerPlan' = callerPlan]_vars

\* the function returned after three attempts: its plan holds the repair
\* fields, the caller's plan does not
C36_Witness ==
  /\ pc = "returned" /\ renders = 3
  /\ RepairKeys \subseteq scenePlan.keys
  /\ scenePlan.previous_code /= NoText
  /\ scenePlan.objects = "circle"
  /\ callerPlan.keys = PlanKeys

(***************************************************************************)
(* More properties of runManim, checked under SpecSearch.                  *)
(***************************************************************************)
\* line i is the last line of stdout with '.mp4', a ready marker and a
\* quoted .mp4 path
LastReadyAt(i) == ReadyAt(i) /\ \A j \in (i + 1)..Len(output) : ~ReadyAt(j)

\* C37: strategy 1 has one candidate, the path quoted by the last stdout
\* line that holds '.mp4', a ready marker and a quoted .mp4 path: it is
\* returned if the file exists, and if it does not strategy 1 finds
\* nothing and strategy 2 runs, even when an earlier such line names a
\* file that exists.
C37_LastReadyLineOnly ==
  rmPc = "closed" =>
    /\ \A i \in 1..Len(output) :
         LastReadyAt(i) =>
           IF fs[output[i].quoted[1]] /= Absent
           THEN /\ searchResult.videoPath = output[i].quoted
                /\ searchResult.tiers = {1}
           ELSE /\ 2 \in searchResult.tiers
                /\ (searchResult.tiers = {1, 2} =>
                      searchResult.videoPath = findLatestMp4(fs, Scene))
    /\ (\A i \in 1..Len(output) : ~ReadyAt(i)) => 2 \in searchResult.tiers

\* the first ready line names a file on disk, the last one a file that is
\* not there: strategy 1 found nothing
C37_Witness ==
  /\ rmPc = "closed"
  /\ output = << ReadyLine(FOutputs), ReadyLine(FQuality) >>
  /\ fs[FOutputs] /= Absent /\ fs[FQuality] = Absent
  /\ 2 \in searchResult.tiers
  /\ searchResult.videoPath /= Some(FOutputs)

(***************************************************************************)
(* The renderer's end, checked under FairSpecRun.                          *)
(***************************************************************************)
\* C38: a runManim call whose renderer was spawned resolves, and once:
\* either the renderer closes by itself (no kill was issued, and none is
\* issued afterwards), or the timer fires while it runs, it is killed and
\* the close event of the killed process resolves the promise; no kill is
\* issued once the close event has been handled.
C38_ResolvesOnce ==
  /\ <>(rmPc = "closed" \/ childError)
  /\ [](rmPc = "closed" =>
          /\ (timedOut <=> exitCode = KilledExit)
          /\ searchResult.output = output /\ searchResult.errors = errors)
  /\ [][(timedOut' /\ ~timedOut) => (rmPc = "running" /\ rmPc' = "running")]_vars
  /\ [][rmPc = "closed" =>
          UNCHANGED << rmPc, timedOut, exitCode, searchResult >>]_vars

\* the timer fired, the renderer was killed and its close event resolved
\* the promise
C38_Witness ==
  /\ rmPc = "closed" /\ timedOut
  /\ exitCode = KilledExit
  /\ Len(output) = 1
  /\ ~searchResult.success

(***************************************************************************)
(* The origin of the returned video, checked under Spec.                   *)
(***************************************************************************)
\* the file is the one a render of this call wrote: the scene's video in
\* its quality folder, carrying the time of the render
WrittenByThisCall(path) == path = Some(FQuality) /\ fs[FQuality] = MaxMtime

\* C39: when generateUntilNoManimErrors returns SUCCESS, the returned
\* videoPath names a file written by the render of the returned code in
\* that attempt, not an .mp4 left on disk by an earlier attempt, an
\* earlier request or another scene.
C39_Original ==
  ReturnedSuccess => WrittenByThisCall(glResult.videoPath)

\* SUCCESS in the first attempt although the render wrote no video: the
\* path returned is the deliverable of an earlier request
C39_Witness ==
  /\ ReturnedSuccess /\ glResult.attempts = 1
  /\ fs[FQuality] = Absent
  /\ glResult.videoPath = Some(FOutputs)
  /\ 3 \in manimResult.tiers

\* what does hold: the returned path names a file that is on disk
C39_ReturnedFileExists ==
  ReturnedSuccess => fs[glResult.videoPath[1]] /= Absent

(***************************************************************************)
(* The handler's test of the loop's result, checked under SpecRequest.     *)
(***************************************************************************)
NoVideoMessage == "Manim did not produce a video after retries"

\* the handler read the result the loop returned and went on or answered
ResultTaken == handler = "awaiting" /\ pc = "returned" /\ handler' /= "awaiting"

\* C40: the handler goes on to narration synthesis and the mux exactly
\* when the loop's result has a non-null videoPath, however the loop
\* ended: an EXHAUSTED result, every attempt of which left stderr text but
\* the last of which located a video, is treated like SUCCESS; the
\* response "Manim did not produce a video after retries" is sent only
\* when videoPath is null or absent.
C40_ProceedsOnVideoPath ==
  /\ [][ResultTaken =>
          /\ handler' \in {"narration", "noVideo"}
          /\ (handler' = "narration") <=> (glResult.videoPath /= Null)
          /\ handler' = "narration" => responses' = responses
          /\ handler' = "noVideo" =>
               /\ Len(responses') = 1
               /\ responses'[1].status = 500
               /\ responses'[1].message = NoVideoMessage]_vars
  /\ []((\E i \in 1..Len(responses) : responses[i].message = NoVideoMessage) =>
          (pc = "returned" /\ glResult.videoPath = Null /\ ttsCalls = 0 /\ muxCalls = 0))
  /\ [](ttsCalls >= 1 => (pc = "returned" /\ glResult.videoPath /= Null))

\* the loop ran out of attempts, each with stderr text, and its last
\* render located a video: narration was synthesised and the mux called
C40_Witness ==
  /\ pc = "returned" /\ "filePath" \notin glResult.keys
  /\ glResult.attempts = DefaultMaxAttempts
  /\ glResult.errors = ErrText
  /\ glResult.videoPath = Some(FQuality)
  /\ ttsCalls = 1 /\ muxCalls = 1
  /\ responses = <<>>

====
